---- MODULE Spec2Model ----
(***************************************************************************)
(* Drag-and-drop engine of src/src/context/DragDropContext.tsx.            *)
(*                                                                         *)
(* The file holds two providers.  Lines 1-697 are the placeholder variant  *)
(* (a placeholder node is inserted in the DOM, auto-scroll runs on         *)
(* animation frames); lines 699-1299 are the transform variant (siblings   *)
(* are translated, a DragPortal tracks the mouse, auto-scroll runs on      *)
(* interval timers).  `variant` selects the provider that is mounted;      *)
(* definitions of the transform variant carry the suffix T.                *)
(*                                                                         *)
(* Under Spec a handler and the React commit that follows it are one step: *)
(* state set in a discrete event is flushed before the next event is       *)
(* dispatched.  SpecDeferred makes the effect cleanup that removes the     *)
(* listeners a step of its own.                                            *)
(* Program indices are 0-based as in the source; -1 is "not found".        *)
(***************************************************************************)
EXTENDS Integers, Sequences, FiniteSets, TLC

VARIABLES
    variant,            \* "placeholder" | "transform": the mounted provider
    page,               \* "board" | "overflow": which of the two pages is rendered
    stale,              \* listeners of an ended session that are still attached
    attached,           \* the container elements attached to the document (isConnected)
    containers,         \* containersRef / containers: insertion-ordered Map, as a sequence of configs
    dragState,          \* React state dragState
    dragData,           \* React state dragData and dragDataRef.current
    dom,                \* per container, the sequence of its child nodes
    hidden,             \* elements with style.display = "none"
    placeholderRef,     \* placeholderRef.current
    dropTargetRef,      \* dropTargetRef.current / DragPortal currentTargetRef.current
    scroll,             \* scrollLeft / scrollTop of the scrollable elements
    scrollAnimationRef, \* scrollAnimationRef.current holds a frame request
    frames,             \* animation frames requested and neither run nor cancelled
    mousePositionRef,   \* mousePositionRef.current
    portal,             \* transform variant: the refs of the provider and of DragPortal
    timers,             \* transform variant: live setInterval timers no ref points to
    calls,              \* callbacks invoked since the last pointer-down, in order
    lastMove,           \* what the last pointer-move of the session resolved
    downs               \* pointer-downs so far

vars == <<variant, page, stale, attached, containers, dragState, dragData, dom, hidden, placeholderRef,
          dropTargetRef, scroll, scrollAnimationRef, frames, mousePositionRef, portal,
          timers, calls, lastMove, downs>>

-----------------------------------------------------------------------------
(* Bounds of the exploration                                               *)

MaxDowns == 2
\* Events delivered to the listeners of an ended session before they are removed.
MaxStale == 2

(* Program constants                                                       *)

SCROLL_THRESHOLD == 60
SCROLL_SPEED == 12
SCROLL_SPEED_T == 15

-----------------------------------------------------------------------------
(* The page: a horizontally scrolling board that holds a vertical list c1  *)
(* (items a, b, c) and a horizontal list c2 (item x).  c2 holds, besides   *)
(* its item, an empty list c3 that is positioned absolutely and overflows  *)
(* c2 (overflow: visible) to the right and below.  Item c is a note, a     *)
(* type no container of the page accepts.  Pixels.                         *)

ContainerIds == {"board", "c1", "c2", "c3"}
ItemIds == {"a", "b", "c", "x"}
NoId == "null"

ParentOf == [a |-> "c1", b |-> "c1", c |-> "c1", x |-> "c2"]
TypeOf == [a |-> "card", b |-> "card", c |-> "note", x |-> "card"]
\* The heights of a, b and c by the name of the page: 40, 20 and 40 px on the two
\* pages of the board, every combination of 10, 20 and 40 px on the others.
HeightsOn ==
    [ board |-> <<40, 20, 40>>, overflow |-> <<40, 20, 40>>,
      h_10_10_10 |-> <<10, 10, 10>>, h_10_10_20 |-> <<10, 10, 20>>, h_10_10_40 |-> <<10, 10, 40>>,
      h_10_20_10 |-> <<10, 20, 10>>, h_10_20_20 |-> <<10, 20, 20>>, h_10_20_40 |-> <<10, 20, 40>>,
      h_10_40_10 |-> <<10, 40, 10>>, h_10_40_20 |-> <<10, 40, 20>>, h_10_40_40 |-> <<10, 40, 40>>,
      h_20_10_10 |-> <<20, 10, 10>>, h_20_10_20 |-> <<20, 10, 20>>, h_20_10_40 |-> <<20, 10, 40>>,
      h_20_20_10 |-> <<20, 20, 10>>, h_20_20_20 |-> <<20, 20, 20>>, h_20_20_40 |-> <<20, 20, 40>>,
      h_20_40_10 |-> <<20, 40, 10>>, h_20_40_20 |-> <<20, 40, 20>>, h_20_40_40 |-> <<20, 40, 40>>,
      h_40_10_10 |-> <<40, 10, 10>>, h_40_10_20 |-> <<40, 10, 20>>, h_40_10_40 |-> <<40, 10, 40>>,
      h_40_20_10 |-> <<40, 20, 10>>, h_40_20_20 |-> <<40, 20, 20>>, h_40_20_40 |-> <<40, 20, 40>>,
      h_40_40_10 |-> <<40, 40, 10>>, h_40_40_20 |-> <<40, 40, 20>>, h_40_40_40 |-> <<40, 40, 40>> ]
\* The sizes of the items on each page.
SizesOn ==
    [pg \in DOMAIN HeightsOn |->
        [a |-> [width |-> 40, height |-> HeightsOn[pg][1]],
         b |-> [width |-> 40, height |-> HeightsOn[pg][2]],
         c |-> [width |-> 40, height |-> HeightsOn[pg][3]],
         x |-> [width |-> 40, height |-> 40]]]
SizeOf == SizesOn[page]
DirectionOf ==
    [board |-> "horizontal", c1 |-> "vertical", c2 |-> "horizontal", c3 |-> "vertical"]
HasOnReorder == [board |-> TRUE, c1 |-> TRUE, c2 |-> TRUE, c3 |-> TRUE]
HasOnItemMove == [board |-> FALSE, c1 |-> TRUE, c2 |-> FALSE, c3 |-> TRUE]
AcceptsTypes ==
    [board |-> {"column"}, c1 |-> {"card"}, c2 |-> {"card"}, c3 |-> {"card"}]
\* Item x is dragged by a handle, the left HandleWidth pixels of its box; the other
\* items have no handleClassName and are dragged by any point of their box.
HandleClassName == [a |-> NoId, b |-> NoId, c |-> NoId, x |-> "handle"]
HandleWidth == 20
\* On the page "board" the board and c1 overflow their boxes; on the page "overflow"
\* c2 and c3 do instead (c3 holds a drop hint taller than its box).
ScrollRoom ==
    IF page = "overflow"
    THEN [board |-> 0, c1 |-> 0, c2 |-> 12, c3 |-> 12]
    ELSE [board |-> 12, c1 |-> 12, c2 |-> 0, c3 |-> 0]
ScrollAxis == [board |-> "x", c1 |-> "y", c2 |-> "x", c3 |-> "y"]
Dynamic == {"c1"}

\* Pointer positions the events are delivered at.
Points ==
    { [x |-> 30, y |-> 10], [x |-> 30, y |-> 45], [x |-> 30, y |-> 70],
      [x |-> 30, y |-> 90], [x |-> 45, y |-> 10], [x |-> 80, y |-> 20],
      [x |-> 100, y |-> 20], [x |-> 145, y |-> 20], [x |-> 150, y |-> 100],
      [x |-> 170, y |-> 20] }
\* Where a pointer-down may arrive while a session is active.
SecondDownPoints == { [x |-> 80, y |-> 20] }

Item(i) == [kind |-> "item", id |-> i]
Ph(i) == [kind |-> "ph", id |-> i]
Orphan(i) == [kind |-> "orphan", id |-> i]
NoPh == [kind |-> "null", id |-> NoId]

DomInit ==
    [board |-> <<>>, c1 |-> <<Item("a"), Item("b"), Item("c")>>, c2 |-> <<Item("x")>>,
     c3 |-> <<>>]

Rect(l, t, w, h) == [left |-> l, top |-> t, width |-> w, height |-> h]
Right(r) == r.left + r.width
Bottom(r) == r.top + r.height
ZeroRect == Rect(0, 0, 0, 0)

\* getBoundingClientRect of a container element: the lists move with the board's scrollLeft.
ContainerRect(c, sc) ==
    CASE c = "board" -> Rect(0, 0, 200, 160)
      [] c = "c1" -> Rect(10 - sc["board"], 0, 40, 100)
      [] c = "c2" -> Rect(70 - sc["board"], 0, 80, 40)
      [] c = "c3" -> Rect(120 - sc["board"] - sc["c2"], 0, 70, 50)

Inside(p, r) == p.x >= r.left /\ p.x <= Right(r) /\ p.y >= r.top /\ p.y <= Bottom(r)
Covers(r, p) == p.x >= r.left /\ p.x < Right(r) /\ p.y >= r.top /\ p.y < Bottom(r)

\* The DOM the handlers read and write, bundled: D.dom, D.hidden, D.ph, D.target, D.scroll.
Cur ==
    [dom |-> dom, hidden |-> hidden, ph |-> placeholderRef, target |-> dropTargetRef,
     scroll |-> scroll]

Horizontal(c) == DirectionOf[c] = "horizontal"

\* Size of a child node along the axis of its container: a hidden element takes no room,
\* a placeholder has the size of the element it was created for.
Extent(n, c, D) ==
    IF n.kind = "item" /\ n.id \in D.hidden THEN 0
    ELSE IF Horizontal(c) THEN SizeOf[n.id].width ELSE SizeOf[n.id].height

RECURSIVE SumExtent(_, _, _)
SumExtent(k, c, D) ==
    IF k = 0 THEN 0 ELSE SumExtent(k - 1, c, D) + Extent(D.dom[c][k], c, D)

\* 1-based position of a node among the children of c, 0 when absent.
PosIn(nodes, n) ==
    IF \E k \in 1..Len(nodes) : nodes[k] = n
    THEN CHOOSE k \in 1..Len(nodes) : nodes[k] = n /\ \A j \in 1..(k - 1) : nodes[j] # n
    ELSE 0

\* getBoundingClientRect of a child node of container c.
NodeRect(n, c, D) ==
    LET cr == ContainerRect(c, D.scroll)
        k == PosIn(D.dom[c], n)
        before == SumExtent(k - 1, c, D)
    IN  IF n.kind = "item" /\ n.id \in D.hidden THEN ZeroRect
        ELSE IF Horizontal(c)
             THEN Rect(cr.left - D.scroll[c] + before, cr.top, SizeOf[n.id].width, SizeOf[n.id].height)
             ELSE Rect(cr.left, cr.top - D.scroll[c] + before, SizeOf[n.id].width, SizeOf[n.id].height)

ItemRect(i, D) == NodeRect(Item(i), ParentOf[i], D)

\* The containers of the page, innermost first: c3 lies in c2, the lists in the board.
Nesting == <<"c3", "c2", "c1", "board">>

\* document.elementsFromPoint, topmost first, reduced to the container elements: every
\* other element at the point (an item, a placeholder) lies inside the innermost
\* container at the point, which is what closest("[data-container-id]") yields for it.
\* The board clips its content; c3, positioned, paints above the content of c2.
ElementsFromPoint(p, D) ==
    LET inBoard == Inside(p, ContainerRect("board", D.scroll))
    IN  SelectSeq(Nesting, LAMBDA c : inBoard /\ Inside(p, ContainerRect(c, D.scroll)))

\* The visible item under the pointer, NoId when there is none.
ItemAt(p, D) ==
    LET els == ElementsFromPoint(p, D)
        hit == IF els = <<>> THEN {}
               ELSE {i \in ItemIds : /\ ParentOf[i] = els[1]
                                     /\ i \notin D.hidden
                                     /\ Covers(ItemRect(i, D), p)}
    IN  IF hit = {} THEN NoId ELSE CHOOSE i \in hit : TRUE

-----------------------------------------------------------------------------
(* Values                                                                  *)

NoDrag == [id |-> NoId]
\* lastMove outside a session and before its first pointer-move; afterwards it is the
\* id of the container that move resolved, NoId when it resolved none.
Unmoved == "unmoved"
NoTarget == [containerId |-> NoId, index |-> 0]
NoConfig == [id |-> NoId]
initialDragState ==
    [isDragging |-> FALSE, draggedId |-> NoId, draggedType |-> NoId,
     sourceContainerId |-> NoId]

\* No listener of an ended session is attached.  Otherwise stale holds what the
\* closures of the attached listeners captured - the session data and the props
\* DragPortal was rendered with - and the number of events delivered to them.
NoStale == [data |-> NoDrag, props |-> initialDragState, n |-> 0]

Min(a, b) == IF a < b THEN a ELSE b
Max(a, b) == IF a > b THEN a ELSE b
\* Assigning scrollTop / scrollLeft clamps to the scrollable range.
Clamp(v, c) == Max(0, Min(v, ScrollRoom[c]))

\* Array.prototype.findIndex on a sequence of ids: 0-based, -1 when absent.
FindIndex(seq, id) ==
    IF \E k \in 1..Len(seq) : seq[k] = id
    THEN (CHOOSE k \in 1..Len(seq) : seq[k] = id /\ \A j \in 1..(k - 1) : seq[j] # id) - 1
    ELSE -1

RemoveNode(nodes, n) == SelectSeq(nodes, LAMBDA m : m # n)
InsertAt(seq, k, e) == SubSeq(seq, 1, k) \o <<e>> \o SubSeq(seq, k + 1, Len(seq))

-----------------------------------------------------------------------------
(* Container registry                                                      *)

MapHas(m, id) == \E k \in 1..Len(m) : m[k].id = id
MapGet(m, id) == IF MapHas(m, id) THEN m[CHOOSE k \in 1..Len(m) : m[k].id = id] ELSE NoConfig
\* Map.set keeps the position of an existing key and appends a new one.
MapSet(m, cfg) ==
    IF MapHas(m, cfg.id)
    THEN [k \in 1..Len(m) |-> IF m[k].id = cfg.id THEN cfg ELSE m[k]]
    ELSE Append(m, cfg)
MapDelete(m, id) == SelectSeq(m, LAMBDA cfg : cfg.id # id)

Config(id, acceptsTypes, direction, element, onReorder, onItemMove) ==
    [id |-> id, acceptsTypes |-> acceptsTypes, direction |-> direction,
     element |-> element, onReorder |-> onReorder, onItemMove |-> onItemMove]

\* A second Container rendered with the id of a mounted one (the drag portal renders
\* a copy of the dragged content) has an element of its own.
CopyOf == [c1 |-> "c1_copy", c3 |-> "c3_copy"]
RegistryIds == DOMAIN CopyOf
NodesOf(id) == {id, CopyOf[id]}
Nodes == UNION {NodesOf(id) : id \in RegistryIds}

\* Node.isConnected.
IsConnected(element) == element \in attached

registerContainer(m, id, acceptsTypes, direction, element, onReorder, onItemMove) ==
    LET existing == MapGet(m, id)
    IN  IF element = NoId THEN m
        ELSE IF existing # NoConfig /\ existing.element # element /\ IsConnected(existing.element)
             THEN m
             ELSE MapSet(m, Config(id, acceptsTypes, direction, element, onReorder, onItemMove))

\* Faulty variant: unregistering one container empties the registry.
unregisterContainer_DropsAll(m, id, element) == SubSeq(m, 1, 0)

unregisterContainer(m, id, element) ==
    LET registered == MapGet(m, id)
    IN  IF element = NoId \/ registered = NoConfig \/ registered.element = element
        THEN MapDelete(m, id)
        ELSE m

registerContainerT(m, id, acceptsTypes, direction, element, onReorder, onItemMove) ==
    MapSet(m, Config(id, acceptsTypes, direction, element, onReorder, onItemMove))

unregisterContainerT(m, id) == MapDelete(m, id)

-----------------------------------------------------------------------------
(* Placeholder variant: placeholder management (lines 117-182)             *)

removePlaceholder(D) ==
    IF D.ph # NoPh
    THEN [D EXCEPT !.dom = [c \in ContainerIds |-> RemoveNode(D.dom[c], D.ph)], !.ph = NoPh]
    ELSE D

\* parentElement of the placeholder, NoId when it is detached.
PlaceholderParent(D) ==
    IF \E c \in ContainerIds : PosIn(D.dom[c], D.ph) > 0
    THEN CHOOSE c \in ContainerIds : PosIn(D.dom[c], D.ph) > 0
    ELSE NoId

\* nextElementSibling of the placeholder inside container c, NoPh for null.
NextElementSibling(c, D) ==
    LET k == PosIn(D.dom[c], D.ph)
    IN  IF k > 0 /\ k < Len(D.dom[c]) THEN D.dom[c][k + 1] ELSE NoPh

\* Faulty variant: the placeholder is put behind the target sibling instead of
\* before it.
insertPlaceholder_AfterSibling(container, index, draggables, D) ==
    LET defined == index >= 0 /\ index < Len(draggables)
        targetSibling == IF defined THEN Item(draggables[index + 1]) ELSE NoPh
        detached == [c \in ContainerIds |-> RemoveNode(D.dom[c], D.ph)]
        at == PosIn(detached[container], targetSibling)
    IN  IF D.ph = NoPh THEN D
        ELSE IF defined
             THEN [D EXCEPT !.dom = [detached EXCEPT ![container] = InsertAt(@, at, D.ph)]]
             ELSE [D EXCEPT !.dom = [detached EXCEPT ![container] = Append(@, D.ph)]]

insertPlaceholder(container, index, draggables, D) ==
    LET \* draggables[index]: undefined for an index outside the array
        defined == index >= 0 /\ index < Len(draggables)
        targetSibling == IF defined THEN Item(draggables[index + 1]) ELSE NoPh
        isNull == index >= Len(draggables)
        inPlace ==
            /\ PlaceholderParent(D) = container
            /\ \/ isNull /\ NextElementSibling(container, D) = NoPh
               \/ defined /\ NextElementSibling(container, D) = targetSibling
        detached == [c \in ContainerIds |-> RemoveNode(D.dom[c], D.ph)]
        at == PosIn(detached[container], targetSibling)
    IN  IF D.ph = NoPh THEN D
        ELSE IF inPlace THEN D
        ELSE IF defined
             THEN [D EXCEPT !.dom = [detached EXCEPT ![container] = InsertAt(@, at - 1, D.ph)]]
             ELSE [D EXCEPT !.dom = [detached EXCEPT ![container] = Append(@, D.ph)]]

-----------------------------------------------------------------------------
(* Placeholder variant: drop target calculation (lines 231-366)            *)

RECURSIVE FirstAccepting(_, _, _)
FirstAccepting(els, m, draggedType) ==
    IF els = <<>> THEN NoConfig
    ELSE LET config == MapGet(m, Head(els))
         IN  IF config # NoConfig /\ draggedType \in config.acceptsTypes
             THEN config
             ELSE FirstAccepting(Tail(els), m, draggedType)

findTargetContainer(p, draggedType, m, D) ==
    FirstAccepting(ElementsFromPoint(p, D), m, draggedType)

\* The [data-id] children of the container that are not the dragged element; a
\* hidden element still matches the selector.
getDraggableChildren(container, draggedId, D) ==
    LET items == SelectSeq(D.dom[container], LAMBDA n : n.kind = "item" /\ n.id # draggedId)
    IN  [k \in 1..Len(items) |-> items[k].id]

\* Twice the on-axis midpoint of an element (kept doubled to stay in the integers).
Midpoint2(rect, isHorizontal) ==
    IF isHorizontal THEN 2 * rect.left + rect.width ELSE 2 * rect.top + rect.height

\* Faulty variant: past the last midpoint the loop answers one slot too far.
RECURSIVE DropIndexFrom_PastEnd(_, _, _, _, _)
DropIndexFrom_PastEnd(i, p, isHorizontal, draggables, D) ==
    IF i >= Len(draggables) THEN Len(draggables) + 1
    ELSE LET rect == ItemRect(draggables[i + 1], D)
         IN  IF (IF isHorizontal THEN 2 * p.x ELSE 2 * p.y) < Midpoint2(rect, isHorizontal)
             THEN i
             ELSE DropIndexFrom_PastEnd(i + 1, p, isHorizontal, draggables, D)

RECURSIVE DropIndexFrom(_, _, _, _, _)
DropIndexFrom(i, p, isHorizontal, draggables, D) ==
    IF i >= Len(draggables) THEN Len(draggables)
    ELSE LET rect == ItemRect(draggables[i + 1], D)
         IN  IF (IF isHorizontal THEN 2 * p.x ELSE 2 * p.y) < Midpoint2(rect, isHorizontal)
             THEN i
             ELSE DropIndexFrom(i + 1, p, isHorizontal, draggables, D)

\* Faulty variant: the placeholder is counted as a child standing before the slot.
calculateDropIndex_CountsPlaceholder(p, container, draggables, D) ==
    LET raw == DropIndexFrom(0, p, container.direction = "horizontal", draggables, D)
        nodes == D.dom[container.element]
        at == IF raw < Len(draggables) THEN PosIn(nodes, Item(draggables[raw + 1]))
              ELSE Len(nodes) + 1
        k == PosIn(nodes, D.ph)
    IN  IF k > 0 /\ k < at THEN raw + 1 ELSE raw

calculateDropIndex(p, container, draggables, D) ==
    DropIndexFrom(0, p, container.direction = "horizontal", draggables, D)

\* Faulty variant: the test of lines 330-335 is skipped and the placeholder is
\* inserted on every resolution.
updateDropTarget_IgnoresLastTarget(p, data, m, D) ==
    LET targetContainer == findTargetContainer(p, data.type, m, D)
        draggables == getDraggableChildren(targetContainer.element, data.id, D)
        dropIndex == calculateDropIndex(p, targetContainer, draggables, D)
        created == IF D.ph = NoPh THEN [D EXCEPT !.ph = Ph(data.id)] ELSE D
    IN  IF data = NoDrag THEN D
        ELSE IF targetContainer = NoConfig
             THEN [removePlaceholder(D) EXCEPT !.target = NoTarget]
        ELSE insertPlaceholder(
                 targetContainer.element, dropIndex, draggables,
                 [created EXCEPT !.target =
                     [containerId |-> targetContainer.id, index |-> dropIndex]])

updateDropTarget(p, data, m, D) ==
    LET targetContainer == findTargetContainer(p, data.type, m, D)
        draggables == getDraggableChildren(targetContainer.element, data.id, D)
        dropIndex == calculateDropIndex(p, targetContainer, draggables, D)
        targetChanged ==
            \/ D.target = NoTarget
            \/ D.target.containerId # targetContainer.id
            \/ D.target.index # dropIndex
        created == IF D.ph = NoPh THEN [D EXCEPT !.ph = Ph(data.id)] ELSE D
    IN  IF data = NoDrag THEN D
        ELSE IF targetContainer = NoConfig
             THEN [removePlaceholder(D) EXCEPT !.target = NoTarget]
        ELSE IF targetChanged
             THEN insertPlaceholder(
                      targetContainer.element, dropIndex, draggables,
                      [created EXCEPT !.target =
                          [containerId |-> targetContainer.id, index |-> dropIndex]])
        ELSE D

-----------------------------------------------------------------------------
(* Placeholder variant: auto-scroll (lines 372-458)                        *)

\* One element of the loop of performAutoScroll: the scroll offsets after its
\* vertical and horizontal edge checks.
ScrollElement(el, p, sc) ==
    LET rect == ContainerRect(el, sc)
        canScrollBack == sc[el] > 0
        canScrollForth == sc[el] < ScrollRoom[el]
        pos == IF ScrollAxis[el] = "y" THEN p.y ELSE p.x
        near == IF ScrollAxis[el] = "y" THEN rect.top ELSE rect.left
        far == IF ScrollAxis[el] = "y" THEN Bottom(rect) ELSE Right(rect)
    IN  IF pos < near + SCROLL_THRESHOLD /\ canScrollBack
        THEN [sc EXCEPT ![el] = Clamp(@ - SCROLL_SPEED, el)]
        ELSE IF pos > far - SCROLL_THRESHOLD /\ canScrollForth
             THEN [sc EXCEPT ![el] = Clamp(@ + SCROLL_SPEED, el)]
             ELSE sc

\* Only one container scrolls: the loop breaks at the first element that did.
RECURSIVE ScrollFirst(_, _, _)
ScrollFirst(els, p, sc) ==
    IF els = <<>> THEN sc
    ELSE IF ScrollElement(Head(els), p, sc) # sc
         THEN ScrollElement(Head(els), p, sc)
         ELSE ScrollFirst(Tail(els), p, sc)

performAutoScroll(data, m, D, mouse) ==
    LET scrolled == ScrollFirst(ElementsFromPoint(mouse, D), mouse, D.scroll)
        didScroll == scrolled # D.scroll
    IN  IF didScroll
        THEN updateDropTarget(mouse, data, m, [D EXCEPT !.scroll = scrolled])
        ELSE D

-----------------------------------------------------------------------------
(* Transform variant: captured layout and preview (lines 806-1032)         *)

NoPoint == [x |-> -1, y |-> -1]
NoTimer == [el |-> NoId, delta |-> 0]
NoStyle == [dx |-> 0, dy |-> 0, opacity |-> ""]
NoTransforms == [i \in ItemIds |-> NoStyle]
NoOriginal ==
    [ids |-> {}, scroll |-> [c \in ContainerIds |-> 0], shift |-> NoTransforms]
NoPreview == [containerId |-> NoId, index |-> -1]

\* getBoundingClientRect of an item under the transform variant: nothing is hidden or
\* inserted, and a translate moves the box.
RectT(i, sc, tr) ==
    LET r == ItemRect(i, [dom |-> DomInit, hidden |-> {}, ph |-> NoPh,
                          target |-> NoTarget, scroll |-> sc])
    IN  [r EXCEPT !.left = @ + tr[i].dx, !.top = @ + tr[i].dy]

\* originalItemsRef after the capture: the containers that got an entry, and the
\* scroll offsets and styles the rects were measured under.
captureOriginalPositions(draggedType, m, sc, tr) ==
    [ids |-> {m[k].id : k \in {j \in 1..Len(m) :
                                  m[j].element # NoId /\ draggedType \in m[j].acceptsTypes}},
     scroll |-> sc, shift |-> tr]

\* The ids of an entry of originalItemsRef, in document order.
OriginalItems(containerId) == getDraggableChildren(containerId, NoId, [dom |-> DomInit])
OriginalRect(orig, i) == RectT(i, orig.scroll, orig.shift)

clearAllTransforms == NoTransforms

RECURSIVE PreviewIndexFrom(_, _, _, _, _)
PreviewIndexFrom(i, dragTrailingEdge2, isHorizontal, items, orig) ==
    IF i >= Len(items) THEN Len(items)
    ELSE IF dragTrailingEdge2 < Midpoint2(OriginalRect(orig, items[i + 1]), isHorizontal)
         THEN i
         ELSE PreviewIndexFrom(i + 1, dragTrailingEdge2, isHorizontal, items, orig)

\* center2 is twice the centre of the dragged box.
calculatePreviewIndex(containerId, center2, draggedId, m, orig, data) ==
    LET container == MapGet(m, containerId)
        originalItems == OriginalItems(containerId)
        items == SelectSeq(originalItems, LAMBDA i : i # draggedId)
        isHorizontal == container.direction = "horizontal"
        dragTrailingEdge2 ==
            IF isHorizontal THEN center2.x + data.itemSize.width
            ELSE center2.y + data.itemSize.height
    IN  IF \/ container = NoConfig
           \/ containerId \notin orig.ids
           \/ originalItems = <<>>
           \/ data = NoDrag
        THEN 0
        ELSE IF items = <<>> THEN 0
        ELSE PreviewIndexFrom(0, dragTrailingEdge2, isHorizontal, items, orig)

\* Array.prototype.splice(start, 0, e).
Splice(seq, start, e) ==
    LET k == IF start < 0 THEN Max(Len(seq) + start, 0) ELSE Min(start, Len(seq))
    IN  InsertAt(seq, k, e)

Translate(isHorizontal, deltaX, deltaY) ==
    [dx |-> IF isHorizontal THEN deltaX ELSE 0, dy |-> IF isHorizontal THEN 0 ELSE deltaY,
     opacity |-> ""]

\* Faulty variant: the dragged item is not removed from the order before it is
\* inserted at the preview index.
SameContainerTransforms_KeepsDragged(target, previewIndex, draggedId, isHorizontal, orig) ==
    LET originalItems == OriginalItems(target)
        newOrder == Splice(originalItems, previewIndex, draggedId)
    IN  [i \in ItemIds |->
            IF FindIndex(originalItems, i) = -1 THEN NoStyle
            ELSE LET newIndex == FindIndex(newOrder, i)
                     newPositionItem == originalItems[newIndex + 1]
                 IN  IF newIndex >= Len(originalItems) THEN NoStyle
                     ELSE Translate(isHorizontal,
                                    OriginalRect(orig, newPositionItem).left
                                        - OriginalRect(orig, i).left,
                                    OriginalRect(orig, newPositionItem).top
                                        - OriginalRect(orig, i).top)]

\* Same-container branch of applyTransforms (lines 926-963).
SameContainerTransforms(target, previewIndex, draggedId, isHorizontal, orig) ==
    LET originalItems == OriginalItems(target)
        newOrder == Splice(SelectSeq(originalItems, LAMBDA i : i # draggedId),
                           previewIndex, draggedId)
    IN  [i \in ItemIds |->
            IF FindIndex(originalItems, i) = -1 THEN NoStyle
            ELSE LET newIndex == FindIndex(newOrder, i)
                     newPositionItem == originalItems[newIndex + 1]
                     deltaX == OriginalRect(orig, newPositionItem).left
                               - OriginalRect(orig, i).left
                     deltaY == OriginalRect(orig, newPositionItem).top
                               - OriginalRect(orig, i).top
                 IN  IF deltaX # 0 \/ deltaY # 0
                     THEN Translate(isHorizontal, deltaX, deltaY)
                     ELSE NoStyle]

\* Cross-container branch of applyTransforms (lines 964-1031).
CrossContainerTransforms(target, previewIndex, draggedId, sourceContainerId, isHorizontal, m, orig, data) ==
    LET originalItems == OriginalItems(target)
        sourceItems == OriginalItems(sourceContainerId)
        hasPlaceholderItem ==
            sourceContainerId \in orig.ids /\ FindIndex(sourceItems, draggedId) # -1
        isSourceHorizontal == MapGet(m, sourceContainerId) # NoConfig
                              /\ MapGet(m, sourceContainerId).direction = "horizontal"
        draggedOriginalIndex == FindIndex(sourceItems, draggedId)
        draggedSize == IF isHorizontal THEN data.itemSize.width ELSE data.itemSize.height
        gap == IF Len(originalItems) >= 2
               THEN IF isHorizontal
                    THEN OriginalRect(orig, originalItems[2]).left
                         - Right(OriginalRect(orig, originalItems[1]))
                    ELSE OriginalRect(orig, originalItems[2]).top
                         - Bottom(OriginalRect(orig, originalItems[1]))
               ELSE 0
        shiftAmount == draggedSize + Max(0, gap)
    IN  [i \in ItemIds |->
            IF hasPlaceholderItem /\ i = draggedId
            THEN [NoStyle EXCEPT !.opacity = "0"]
            ELSE IF hasPlaceholderItem /\ FindIndex(sourceItems, i) > draggedOriginalIndex
            THEN LET prevItem == sourceItems[FindIndex(sourceItems, i)]
                     deltaX == OriginalRect(orig, prevItem).left - OriginalRect(orig, i).left
                     deltaY == OriginalRect(orig, prevItem).top - OriginalRect(orig, i).top
                 IN  IF deltaX # 0 \/ deltaY # 0
                     THEN Translate(isSourceHorizontal, deltaX, deltaY)
                     ELSE NoStyle
            ELSE IF FindIndex(originalItems, i) # -1 /\ FindIndex(originalItems, i) >= previewIndex
            THEN Translate(isHorizontal, shiftAmount, shiftAmount)
            ELSE NoStyle]

\* applyTransforms: previewStateRef and the inline styles it leaves.
applyTransforms(target, previewIndex, draggedId, sourceContainerId, m, orig, data, preview, tr) ==
    LET container == MapGet(m, target)
        isHorizontal == container.direction = "horizontal"
        newPreview == [containerId |-> target, index |-> previewIndex]
        draggedOriginalIndex == FindIndex(OriginalItems(target), draggedId)
        hasPlaceholderItem ==
            sourceContainerId \in orig.ids
            /\ FindIndex(OriginalItems(sourceContainerId), draggedId) # -1
        styles ==
            IF target = NoId \/ data = NoDrag THEN clearAllTransforms
            ELSE IF container = NoConfig \/ target \notin orig.ids THEN clearAllTransforms
            ELSE IF target = sourceContainerId
            THEN IF draggedOriginalIndex = -1 \/ ~hasPlaceholderItem THEN clearAllTransforms
                 ELSE IF previewIndex = draggedOriginalIndex THEN clearAllTransforms
                 ELSE SameContainerTransforms(target, previewIndex, draggedId,
                                              isHorizontal, orig)
            ELSE CrossContainerTransforms(target, previewIndex, draggedId,
                                          sourceContainerId, isHorizontal, m, orig, data)
    IN  IF preview = newPreview
        THEN [preview |-> preview, transforms |-> tr]
        ELSE [preview |-> newPreview, transforms |-> styles]

-----------------------------------------------------------------------------
(* Callbacks                                                               *)

Call(cb, itemId, from, to, fromIndex, toIndex) ==
    [cb |-> cb, itemId |-> itemId, fromContainerId |-> from, toContainerId |-> to,
     fromIndex |-> fromIndex, toIndex |-> toIndex]

\* Faulty variants of the callback dispatch, against which the properties of the
\* callbacks are tested.  Each differs from the dispatch below in one decision.

\* Both callbacks of the target fire on a same-container drop.
DropCalls_Both(data, dropTarget, m) ==
    LET targetContainer == MapGet(m, dropTarget.containerId)
    IN  IF dropTarget # NoTarget /\ targetContainer # NoConfig
        THEN IF dropTarget.containerId = data.sourceContainerId
             THEN <<Call("onReorder", data.id, data.sourceContainerId,
                         dropTarget.containerId, data.sourceIndex, dropTarget.index),
                    Call("onItemMove", data.id, data.sourceContainerId,
                         dropTarget.containerId, data.sourceIndex, dropTarget.index)>>
             ELSE <<Call("onItemMove", data.id, data.sourceContainerId,
                         dropTarget.containerId, data.sourceIndex, dropTarget.index)>>
        ELSE <<>>

\* The else of the container comparison is taken for the index comparison.
DropCalls_DanglingElse(data, dropTarget, m) ==
    LET targetContainer == MapGet(m, dropTarget.containerId)
    IN  IF dropTarget # NoTarget /\ targetContainer # NoConfig
        THEN IF dropTarget.containerId = data.sourceContainerId
                /\ data.sourceIndex # dropTarget.index
             THEN IF targetContainer.onReorder
                  THEN <<Call("onReorder", data.id, data.sourceContainerId,
                              dropTarget.containerId, data.sourceIndex, dropTarget.index)>>
                  ELSE <<>>
             ELSE IF targetContainer.onItemMove
                  THEN <<Call("onItemMove", data.id, data.sourceContainerId,
                              dropTarget.containerId, data.sourceIndex, dropTarget.index)>>
                  ELSE <<>>
        ELSE <<>>

\* A null drop target falls back to the source slot's neighbour.
DropCalls_FallsBackToSource(data, dropTarget, m) ==
    LET target == IF dropTarget = NoTarget
                  THEN [containerId |-> data.sourceContainerId,
                        index |-> data.sourceIndex + 1]
                  ELSE dropTarget
        targetContainer == MapGet(m, target.containerId)
    IN  IF targetContainer # NoConfig
        THEN IF target.containerId = data.sourceContainerId
             THEN IF data.sourceIndex # target.index /\ targetContainer.onReorder
                  THEN <<Call("onReorder", data.id, data.sourceContainerId,
                              target.containerId, data.sourceIndex, target.index)>>
                  ELSE <<>>
             ELSE IF targetContainer.onItemMove
                  THEN <<Call("onItemMove", data.id, data.sourceContainerId,
                              target.containerId, data.sourceIndex, target.index)>>
                  ELSE <<>>
        ELSE <<>>

\* The index comparison guards the cross-container branch as well.
DropCalls_ItemMoveIndexGuard(data, dropTarget, m) ==
    LET targetContainer == MapGet(m, dropTarget.containerId)
    IN  IF dropTarget # NoTarget /\ targetContainer # NoConfig
           /\ data.sourceIndex # dropTarget.index
        THEN IF dropTarget.containerId = data.sourceContainerId
             THEN IF targetContainer.onReorder
                  THEN <<Call("onReorder", data.id, data.sourceContainerId,
                              dropTarget.containerId, data.sourceIndex, dropTarget.index)>>
                  ELSE <<>>
             ELSE IF targetContainer.onItemMove
                  THEN <<Call("onItemMove", data.id, data.sourceContainerId,
                              dropTarget.containerId, data.sourceIndex, dropTarget.index)>>
                  ELSE <<>>
        ELSE <<>>

\* The callbacks are taken from the Container the target was resolved to, without
\* looking it up in the registry again.
DropCalls_StaleConfig(data, dropTarget, m) ==
    IF dropTarget # NoTarget
    THEN IF dropTarget.containerId = data.sourceContainerId
         THEN IF data.sourceIndex # dropTarget.index /\ HasOnReorder[dropTarget.containerId]
              THEN <<Call("onReorder", data.id, data.sourceContainerId,
                          dropTarget.containerId, data.sourceIndex, dropTarget.index)>>
              ELSE <<>>
         ELSE IF HasOnItemMove[dropTarget.containerId]
              THEN <<Call("onItemMove", data.id, data.sourceContainerId,
                          dropTarget.containerId, data.sourceIndex, dropTarget.index)>>
              ELSE <<>>
    ELSE <<>>

\* onItemMove reports the slot the item was last shown at as the index it came from.
DropCalls_FromShownSlot(data, dropTarget, m) ==
    LET targetContainer == MapGet(m, dropTarget.containerId)
    IN  IF dropTarget # NoTarget /\ targetContainer # NoConfig
        THEN IF dropTarget.containerId = data.sourceContainerId
             THEN IF data.sourceIndex # dropTarget.index /\ targetContainer.onReorder
                  THEN <<Call("onReorder", data.id, data.sourceContainerId,
                              dropTarget.containerId, data.sourceIndex, dropTarget.index)>>
                  ELSE <<>>
             ELSE IF targetContainer.onItemMove
                  THEN <<Call("onItemMove", data.id, data.sourceContainerId,
                              dropTarget.containerId, dropTarget.index, dropTarget.index)>>
                  ELSE <<>>
        ELSE <<>>

\* The callbacks handleMouseUp invokes (lines 563-594), in order.
DropCalls(data, dropTarget, m) ==
    LET targetContainer ==
            IF dropTarget # NoTarget THEN MapGet(m, dropTarget.containerId) ELSE NoConfig
    IN  IF dropTarget # NoTarget /\ targetContainer # NoConfig
        THEN IF dropTarget.containerId = data.sourceContainerId
             THEN IF data.sourceIndex # dropTarget.index /\ targetContainer.onReorder
                  THEN <<Call("onReorder", data.id, data.sourceContainerId,
                              dropTarget.containerId, data.sourceIndex, dropTarget.index)>>
                  ELSE <<>>
             ELSE IF targetContainer.onItemMove
                  THEN <<Call("onItemMove", data.id, data.sourceContainerId,
                              dropTarget.containerId, data.sourceIndex, dropTarget.index)>>
                  ELSE <<>>
        ELSE <<>>

\* Faulty variant: the index comparison of the same-container branch is missing.
DropCallsT_NoIndexGuard(data, targetContainerId, previewIndex, m) ==
    LET sourceContainer == MapGet(m, data.sourceContainerId)
        targetContainer == MapGet(m, targetContainerId)
    IN  IF data # NoDrag /\ targetContainerId # NoId
        THEN IF targetContainerId = data.sourceContainerId
             THEN IF sourceContainer # NoConfig /\ sourceContainer.onReorder
                  THEN <<Call("onReorder", data.id, data.sourceContainerId,
                              targetContainerId, data.sourceIndex, previewIndex)>>
                  ELSE <<>>
             ELSE IF targetContainer # NoConfig /\ targetContainer.onItemMove
                  THEN <<Call("onItemMove", data.id, data.sourceContainerId,
                              targetContainerId, data.sourceIndex, previewIndex)>>
                  ELSE <<>>
        ELSE <<>>

\* The callbacks handleDrop invokes (lines 1037-1062), in order.
DropCallsT(data, targetContainerId, previewIndex, m) ==
    LET sourceContainer == MapGet(m, data.sourceContainerId)
        targetContainer == MapGet(m, targetContainerId)
    IN  IF data # NoDrag /\ targetContainerId # NoId
        THEN IF targetContainerId = data.sourceContainerId
             THEN IF /\ previewIndex # data.sourceIndex
                     /\ sourceContainer # NoConfig
                     /\ sourceContainer.onReorder
                  THEN <<Call("onReorder", data.id, data.sourceContainerId,
                              targetContainerId, data.sourceIndex, previewIndex)>>
                  ELSE <<>>
             ELSE IF targetContainer # NoConfig /\ targetContainer.onItemMove
                  THEN <<Call("onItemMove", data.id, data.sourceContainerId,
                              targetContainerId, data.sourceIndex, previewIndex)>>
                  ELSE <<>>
        ELSE <<>>

-----------------------------------------------------------------------------
(* State                                                                   *)

SetDom(D) ==
    /\ dom' = D.dom
    /\ hidden' = D.hidden
    /\ placeholderRef' = D.ph
    /\ dropTargetRef' = D.target
    /\ scroll' = D.scroll

\* The refs of the transform variant when no DragPortal is mounted.
NoPortal ==
    [mounted |-> FALSE, initialRect |-> ZeroRect, startMouse |-> NoPoint,
     scrollInterval |-> NoTimer, original |-> NoOriginal, preview |-> NoPreview,
     transforms |-> NoTransforms, downAt |-> NoPoint]

\* The Containers mount children first: c1, c3 inside c2, c2, then the board.
InitOn(pg) ==
    /\ variant \in {"placeholder", "transform"}
    /\ page = pg
    /\ stale = NoStale
    /\ attached = ContainerIds
    /\ containers =
         << Config("c1", AcceptsTypes["c1"], "vertical", "c1", HasOnReorder["c1"],
                   HasOnItemMove["c1"]),
            Config("c3", AcceptsTypes["c3"], "vertical", "c3", HasOnReorder["c3"],
                   HasOnItemMove["c3"]),
            Config("c2", AcceptsTypes["c2"], "horizontal", "c2", HasOnReorder["c2"],
                   HasOnItemMove["c2"]),
            Config("board", AcceptsTypes["board"], "horizontal", "board",
                   HasOnReorder["board"], HasOnItemMove["board"]) >>
    /\ dragState = initialDragState
    /\ dragData = NoDrag
    /\ dom = DomInit
    /\ hidden = {}
    /\ placeholderRef = NoPh
    /\ dropTargetRef = NoTarget
    /\ scroll = [c \in ContainerIds |-> 0]
    /\ scrollAnimationRef = FALSE
    /\ frames = 0
    /\ mousePositionRef = [x |-> 0, y |-> 0]
    /\ portal = NoPortal
    /\ timers = {}
    /\ calls = <<>>
    /\ lastMove = Unmoved
    /\ downs = 0

Init == InitOn("board")

-----------------------------------------------------------------------------
(* Placeholder variant: drag lifecycle (lines 464-640)                     *)

\* Draggable.handleMouseDown up to the call of startDrag: TRUE when it goes on to
\* call it.  The target of the event is the handle or lies inside it when the
\* pointer is within the handle's box; rect is the box of the Draggable.
handleMouseDown_IgnoresHandle(id, e, rect) == TRUE

handleMouseDown(id, e, rect) ==
    LET isHandle == e.x < rect.left + HandleWidth
    IN  HandleClassName[id] # NoId => isHandle

\* The value startDrag passes to setDragState (lines 505-510 and 1104-1109).
DragStateOf_NoSource(id, type, containerId) ==
    [isDragging |-> TRUE, draggedId |-> id, draggedType |-> type,
     sourceContainerId |-> NoId]

DragStateOf(id, type, containerId) ==
    [isDragging |-> TRUE, draggedId |-> id, draggedType |-> type,
     sourceContainerId |-> containerId]

\* The auto-scroll loop as the pair L = [ref, frames] of scrollAnimationRef.current
\* (non-null or null) and the number of pending animation frames.
startAutoScrollLoop(L) == [ref |-> TRUE, frames |-> L.frames + 1]

stopAutoScrollLoop_KeepsFrame(L) == [ref |-> FALSE, frames |-> L.frames]

stopAutoScrollLoop(L) == IF L.ref THEN [ref |-> FALSE, frames |-> L.frames - 1] ELSE L

\* The effect of lines 619-640 after a render in which a session is active: the
\* cleanup of its previous run, when that run got as far as returning one, then the
\* new loop.
ListenerEffect(wasDragging, L) ==
    startAutoScrollLoop(IF wasDragging THEN stopAutoScrollLoop(L) ELSE L)

\* startDrag(id, type, containerId, e, element, content): Draggable.handleMouseDown
\* passes the props of the Draggable under the pointer.  The effect of lines 619-640
\* then attaches the listeners and starts the auto-scroll loop.
startDrag(id, type, containerId, e, D) ==
    LET rect == ItemRect(id, D)
        container == MapGet(containers, containerId)
        sourceIndex ==
            IF container # NoConfig
            THEN FindIndex(getDraggableChildren(container.element, NoId, D), id)
            ELSE 0
        newDragData ==
            [id |-> id, type |-> type, sourceContainerId |-> containerId,
             sourceIndex |-> sourceIndex,
             rect |-> [width |-> rect.width, height |-> rect.height]]
        \* placeholderRef.current is overwritten: a placeholder still attached stays in the DOM
        orphaned == [c \in ContainerIds |->
                        [k \in 1..Len(D.dom[c]) |->
                            IF D.dom[c][k] = D.ph THEN Orphan(D.ph.id) ELSE D.dom[c][k]]]
        D1 == [D EXCEPT !.dom = orphaned, !.ph = Ph(id)]
        D2 == IF container # NoConfig
              THEN insertPlaceholder(container.element, sourceIndex,
                                     getDraggableChildren(container.element, id, D1), D1)
              ELSE D1
    IN  /\ dragData' = newDragData
        /\ dragState' = DragStateOf(id, type, containerId)
        /\ mousePositionRef' = e
        /\ SetDom([D2 EXCEPT !.hidden = @ \cup {id},
                             !.target = [containerId |-> containerId, index |-> sourceIndex]])
        /\ LET L == ListenerEffect(dragState.isDragging,
                                   [ref |-> scrollAnimationRef, frames |-> frames])
           IN  scrollAnimationRef' = L.ref /\ frames' = L.frames

StartDrag(p) ==
    /\ variant = "placeholder"
    /\ downs < MaxDowns
    /\ dragData # NoDrag => p \in SecondDownPoints
    /\ ItemAt(p, Cur) # NoId
    /\ LET id == ItemAt(p, Cur)
       IN  /\ handleMouseDown(id, p, ItemRect(id, Cur))
           /\ startDrag(id, TypeOf[id], ParentOf[id], p, Cur)
    /\ downs' = downs + 1
    /\ calls' = <<>>
    /\ lastMove' = Unmoved
    /\ UNCHANGED <<variant, page, stale, attached, containers, portal, timers>>

handleMouseMove(e, data, D) ==
    /\ mousePositionRef' = e
    /\ SetDom(updateDropTarget(e, data, containers, D))

HandleMouseMove(p) ==
    /\ variant = "placeholder"
    /\ dragState.isDragging
    /\ handleMouseMove(p, dragData, Cur)
    /\ lastMove' = dropTargetRef'.containerId
    /\ UNCHANGED <<variant, page, stale, attached, containers, dragState, dragData, scrollAnimationRef, frames, portal,
                   timers, calls, downs>>

\* One pending animation frame runs the loop of startAutoScrollLoop.  The loop was
\* created in a render in which dragState.isDragging was true, so its test of line
\* 444 passes; it requests the next frame.
Frame ==
    /\ variant = "placeholder"
    /\ frames > 0
    /\ SetDom(performAutoScroll(dragData, containers, Cur, mousePositionRef))
    /\ scrollAnimationRef' = TRUE
    /\ UNCHANGED <<variant, page, stale, attached, containers, dragState, dragData, frames,
                   mousePositionRef, portal, timers, calls, lastMove, downs>>

\* stopAutoScrollLoop cancels the pending frame; the effect cleanup removes the listeners.
handleMouseUp(data, D) ==
    /\ calls' = calls \o DropCalls(data, D.target, containers)
    /\ SetDom([removePlaceholder([D EXCEPT !.hidden = @ \ {data.id}])
                  EXCEPT !.target = NoTarget])
    /\ LET L == stopAutoScrollLoop([ref |-> scrollAnimationRef, frames |-> frames])
       IN  scrollAnimationRef' = L.ref /\ frames' = L.frames
    /\ dragState' = initialDragState
    /\ dragData' = NoDrag

HandleMouseUp ==
    /\ variant = "placeholder"
    /\ dragState.isDragging
    /\ handleMouseUp(dragData, Cur)
    /\ lastMove' = Unmoved
    /\ UNCHANGED <<variant, page, stale, attached, containers, mousePositionRef, portal, timers, downs>>

-----------------------------------------------------------------------------
(* Transform variant: drag lifecycle and DragPortal (lines 1034-1290)      *)

DocOrder == <<"a", "b", "c", "x">>

\* The item whose box is topmost at the point (a later sibling paints above an
\* earlier one), NoId when there is none; boxes are clipped by their container.
ItemAtT(p, sc, tr) ==
    LET hit == {i \in ItemIds : /\ Covers(RectT(i, sc, tr), p)
                                /\ Inside(p, ContainerRect(ParentOf[i], sc))
                                /\ Inside(p, ContainerRect("board", sc))}
    IN  IF hit = {} THEN NoId
        ELSE CHOOSE i \in hit :
                 \A j \in hit : FindIndex(DocOrder, j) <= FindIndex(DocOrder, i)

\* startDrag and the render that mounts DragPortal, or re-runs its effect when it
\* is already mounted: its refs then keep their values.
startDragT(id, type, containerId, e) ==
    LET rect == RectT(id, scroll, portal.transforms)
        orig == captureOriginalPositions(type, containers, scroll, portal.transforms)
        sourceIndex == IF containerId \in orig.ids
                       THEN FindIndex(OriginalItems(containerId), id)
                       ELSE 0
    IN  /\ dragData' = [id |-> id, type |-> type, sourceContainerId |-> containerId,
                        sourceIndex |-> sourceIndex,
                        itemSize |-> [width |-> rect.width, height |-> rect.height]]
        /\ dragState' = DragStateOf(id, type, containerId)
        /\ portal' = [mounted |-> TRUE, initialRect |-> rect,
                      startMouse |-> portal.startMouse, scrollInterval |-> NoTimer,
                      original |-> orig,
                      preview |-> [containerId |-> containerId, index |-> sourceIndex],
                      transforms |-> portal.transforms, downAt |-> e]
        /\ dropTargetRef' = IF portal.mounted THEN dropTargetRef
                            ELSE [containerId |-> containerId, index |-> -1]

StartDragT(p) ==
    /\ variant = "transform"
    /\ downs < MaxDowns
    /\ dragData # NoDrag => p \in SecondDownPoints
    /\ ItemAtT(p, scroll, portal.transforms) # NoId
    /\ LET id == ItemAtT(p, scroll, portal.transforms)
       IN  /\ handleMouseDown(id, p, RectT(id, scroll, portal.transforms))
           /\ startDragT(id, TypeOf[id], ParentOf[id], p)
    /\ downs' = downs + 1
    /\ calls' = <<>>
    /\ lastMove' = Unmoved
    /\ UNCHANGED <<variant, page, stale, attached, containers, dom, hidden, placeholderRef, scroll,
                   scrollAnimationRef, frames, mousePositionRef, timers>>

\* The timer one container of the loop of lines 1199-1243 starts, NoTimer for none.
AutoScrollTimer(container, e, rect, sc) ==
    LET el == container.element
        top == IF ScrollAxis[el] = "y" THEN sc[el] ELSE 0
        left == IF ScrollAxis[el] = "x" THEN sc[el] ELSE 0
        maxTop == IF ScrollAxis[el] = "y" THEN ScrollRoom[el] ELSE 0
        maxLeft == IF ScrollAxis[el] = "x" THEN ScrollRoom[el] ELSE 0
    IN  IF container.direction = "vertical"
        THEN IF e.y < rect.top + SCROLL_THRESHOLD /\ top > 0
             THEN [el |-> el, delta |-> 0 - SCROLL_SPEED_T]
             ELSE IF e.y > Bottom(rect) - SCROLL_THRESHOLD /\ top < maxTop
                  THEN [el |-> el, delta |-> SCROLL_SPEED_T]
                  ELSE NoTimer
        ELSE IF e.x < rect.left + SCROLL_THRESHOLD /\ left > 0
             THEN [el |-> el, delta |-> 0 - SCROLL_SPEED_T]
             ELSE IF e.x > Right(rect) - SCROLL_THRESHOLD /\ left < maxLeft
                  THEN [el |-> el, delta |-> SCROLL_SPEED_T]
                  ELSE NoTimer

\* The loop over the registry in insertion order.  acc.area = -1 stands for Infinity;
\* a timer started while scrollIntervalRef holds another one leaves that one running.
RECURSIVE HitTest(_, _, _, _, _, _)
HitTest(k, e, draggedType, m, sc, acc) ==
    IF k > Len(m) THEN acc
    ELSE LET container == m[k]
             rect == ContainerRect(container.element, sc)
             area == rect.width * rect.height
             timer == AutoScrollTimer(container, e, rect, sc)
         IN  IF container.element = NoId \/ draggedType \notin container.acceptsTypes
             THEN HitTest(k + 1, e, draggedType, m, sc, acc)
             ELSE IF Inside(e, rect) /\ (acc.area = -1 \/ area < acc.area)
             THEN HitTest(k + 1, e, draggedType, m, sc,
                          [area |-> area, target |-> container.id,
                           interval |-> IF timer # NoTimer THEN timer ELSE acc.interval,
                           leaked |-> IF timer # NoTimer /\ acc.interval # NoTimer
                                      THEN acc.leaked \cup {acc.interval}
                                      ELSE acc.leaked])
             ELSE HitTest(k + 1, e, draggedType, m, sc, acc)

\* DragPortal handleMouseMove (lines 1174-1253) in a closure that captured the props
\* of DragPortal, with data the value of dragDataRef.current.
handleMouseMoveWith(e, props, data) ==
    LET startMouse == IF portal.startMouse = NoPoint THEN e ELSE portal.startMouse
        newX == portal.initialRect.left + (e.x - startMouse.x)
        newY == portal.initialRect.top + (e.y - startMouse.y)
        center2 == [x |-> 2 * newX + portal.initialRect.width,
                    y |-> 2 * newY + portal.initialRect.height]
        acc == HitTest(1, e, props.draggedType, containers, scroll,
                       [area |-> -1, target |-> NoId, interval |-> NoTimer, leaked |-> {}])
        previewIndex ==
            IF acc.target # NoId
            THEN calculatePreviewIndex(acc.target, center2, props.draggedId,
                                       containers, portal.original, data)
            ELSE 0
        applied == applyTransforms(acc.target, previewIndex, props.draggedId,
                                   props.sourceContainerId, containers,
                                   portal.original, data, portal.preview,
                                   portal.transforms)
    IN  /\ dropTargetRef' = [containerId |-> acc.target, index |-> previewIndex]
        /\ portal' = [portal EXCEPT !.startMouse = startMouse,
                                    !.scrollInterval = acc.interval,
                                    !.preview = applied.preview,
                                    !.transforms = applied.transforms]
        /\ timers' = timers \cup acc.leaked

handleMouseMoveT(e) == handleMouseMoveWith(e, dragState, dragData)

\* The first pointer-move of a session is reported where the pointer went down.
HandleMouseMoveT(p) ==
    /\ variant = "transform"
    /\ portal.mounted
    /\ portal.startMouse = NoPoint => p = portal.downAt
    /\ handleMouseMoveT(p)
    /\ lastMove' = dropTargetRef'.containerId
    /\ UNCHANGED <<variant, page, stale, attached, containers, dragState, dragData, dom, hidden, placeholderRef,
                   scroll, scrollAnimationRef, frames, mousePositionRef, calls, downs>>

\* One firing of a live setInterval callback.
Tick(t) ==
    /\ variant = "transform"
    /\ t # NoTimer
    /\ scroll' = [scroll EXCEPT ![t.el] = Clamp(@ + t.delta, t.el)]
    /\ UNCHANGED <<variant, page, stale, attached, containers, dragState, dragData, dom, hidden, placeholderRef,
                   dropTargetRef, scrollAnimationRef, frames, mousePositionRef, portal, timers,
                   calls, lastMove, downs>>

\* DragPortal handleMouseUp, handleDrop and the unmount of DragPortal.
HandleMouseUpT ==
    /\ variant = "transform"
    /\ portal.mounted
    /\ calls' = calls \o DropCallsT(dragData, dropTargetRef.containerId,
                                    dropTargetRef.index, containers)
    /\ dragState' = initialDragState
    /\ dragData' = NoDrag
    /\ portal' = NoPortal
    /\ dropTargetRef' = NoTarget
    /\ lastMove' = Unmoved
    /\ UNCHANGED <<variant, page, stale, attached, containers, dom, hidden, placeholderRef, scroll,
                   scrollAnimationRef, frames, mousePositionRef, timers, downs>>

-----------------------------------------------------------------------------
(* Container mount and unmount (Container.tsx lines 115-128)               *)

Register(c) ==
    /\ containers' =
         IF variant = "placeholder"
         THEN registerContainer(containers, c, AcceptsTypes[c], DirectionOf[c], c,
                                HasOnReorder[c], HasOnItemMove[c])
         ELSE registerContainerT(containers, c, AcceptsTypes[c], DirectionOf[c], c,
                                 HasOnReorder[c], HasOnItemMove[c])
    /\ containers' # containers
    /\ UNCHANGED <<variant, page, stale, attached, dragState, dragData, dom, hidden, placeholderRef,
                   dropTargetRef, scroll, scrollAnimationRef, frames, mousePositionRef, portal,
                   timers, calls, lastMove, downs>>

Unregister(c) ==
    /\ containers' =
         IF variant = "placeholder"
         THEN unregisterContainer(containers, c, NoId)
         ELSE unregisterContainerT(containers, c)
    /\ containers' # containers
    /\ UNCHANGED <<variant, page, stale, attached, dragState, dragData, dom, hidden, placeholderRef,
                   dropTargetRef, scroll, scrollAnimationRef, frames, mousePositionRef, portal,
                   timers, calls, lastMove, downs>>

Next ==
    \/ \E p \in Points : StartDrag(p)
    \/ \E p \in Points : HandleMouseMove(p)
    \/ Frame
    \/ HandleMouseUp
    \/ \E p \in Points : StartDragT(p)
    \/ \E p \in Points : HandleMouseMoveT(p)
    \/ \E t \in timers \cup {portal.scrollInterval} : Tick(t)
    \/ HandleMouseUpT
    \/ \E c \in Dynamic : Register(c)
    \/ \E c \in Dynamic : Unregister(c)

Spec == Init /\ [][Next]_vars

-----------------------------------------------------------------------------
(* The registry on its own: Containers and copies of them mount, register, *)
(* unregister and unmount in any order, starting from the empty registry   *)
(* of a provider nothing has mounted under yet.                            *)

InitRegistry ==
    /\ variant \in {"placeholder", "transform"}
    /\ page = "board"
    /\ stale = NoStale
    /\ attached = {}
    /\ containers = <<>>
    /\ dragState = initialDragState
    /\ dragData = NoDrag
    /\ dom = DomInit
    /\ hidden = {}
    /\ placeholderRef = NoPh
    /\ dropTargetRef = NoTarget
    /\ scroll = [c \in ContainerIds |-> 0]
    /\ scrollAnimationRef = FALSE
    /\ frames = 0
    /\ mousePositionRef = [x |-> 0, y |-> 0]
    /\ portal = NoPortal
    /\ timers = {}
    /\ calls = <<>>
    /\ lastMove = Unmoved
    /\ downs = 0

\* register(id, ..., element, ...) as the mounted provider has it.
registerWith(m, id, element) ==
    IF variant = "placeholder"
    THEN registerContainer(m, id, AcceptsTypes[id], DirectionOf[id], element,
                           HasOnReorder[id], HasOnItemMove[id])
    ELSE registerContainerT(m, id, AcceptsTypes[id], DirectionOf[id], element,
                            HasOnReorder[id], HasOnItemMove[id])

\* unregister(id, element): the transform variant's function takes the id alone, a
\* second argument is dropped.
unregisterWith(m, id, element) ==
    IF variant = "placeholder"
    THEN unregisterContainer(m, id, element)
    ELSE unregisterContainerT(m, id)

AttachNode(n) ==
    /\ n \notin attached
    /\ attached' = attached \cup {n}
    /\ UNCHANGED <<variant, page, stale, containers, dragState, dragData, dom, hidden, placeholderRef,
                   dropTargetRef, scroll, scrollAnimationRef, frames, mousePositionRef, portal,
                   timers, calls, lastMove, downs>>

DetachNode(n) ==
    /\ n \in attached
    /\ attached' = attached \ {n}
    /\ UNCHANGED <<variant, page, stale, containers, dragState, dragData, dom, hidden, placeholderRef,
                   dropTargetRef, scroll, scrollAnimationRef, frames, mousePositionRef, portal,
                   timers, calls, lastMove, downs>>

\* The register effect of a Container whose element is n, or whose ref is still null.
RegisterNode(id, n) ==
    /\ n # NoId => n \in attached
    /\ containers' = registerWith(containers, id, n)
    /\ UNCHANGED <<variant, page, stale, attached, dragState, dragData, dom, hidden, placeholderRef,
                   dropTargetRef, scroll, scrollAnimationRef, frames, mousePositionRef, portal,
                   timers, calls, lastMove, downs>>

UnregisterNode(id, n) ==
    /\ containers' = unregisterWith(containers, id, n)
    /\ UNCHANGED <<variant, page, stale, attached, dragState, dragData, dom, hidden, placeholderRef,
                   dropTargetRef, scroll, scrollAnimationRef, frames, mousePositionRef, portal,
                   timers, calls, lastMove, downs>>

NextRegistry ==
    \/ \E n \in Nodes : AttachNode(n)
    \/ \E n \in Nodes : DetachNode(n)
    \/ \E id \in RegistryIds : \E n \in NodesOf(id) \cup {NoId} : RegisterNode(id, n)
    \/ \E id \in RegistryIds : \E n \in NodesOf(id) \cup {NoId} : UnregisterNode(id, n)

SpecRegistry == InitRegistry /\ [][NextRegistry]_vars

-----------------------------------------------------------------------------
(* Container components over the registry: an original and, while it is    *)
(* mounted, a duplicate rendered with the same id.  A Container is mounted *)
(* exactly while its element is attached.                                  *)

\* The mount of a Container whose element is n: the register effect (lines 115-124).
MountContainer(id, n) ==
    /\ n \notin attached
    /\ n = CopyOf[id] => id \in attached
    /\ attached' = attached \cup {n}
    /\ containers' = registerWith(containers, id, n)
    /\ UNCHANGED <<variant, page, stale, dragState, dragData, dom, hidden, placeholderRef,
                   dropTargetRef, scroll, scrollAnimationRef, frames, mousePositionRef, portal,
                   timers, calls, lastMove, downs>>

\* A render of a mounted Container after which the register effect runs again.
RenderContainer(id, n) ==
    /\ n \in attached
    /\ containers' = registerWith(containers, id, n)
    /\ containers' # containers
    /\ UNCHANGED <<variant, page, stale, attached, dragState, dragData, dom, hidden,
                   placeholderRef, dropTargetRef, scroll, scrollAnimationRef, frames,
                   mousePositionRef, portal, timers, calls, lastMove, downs>>

\* The unmount: the cleanup of lines 126-128 calls unregisterContainer(id) with no
\* element, and the element leaves the document.
UnmountContainer(id, n) ==
    /\ n \in attached
    /\ attached' = attached \ {n}
    /\ containers' = unregisterWith(containers, id, NoId)
    /\ UNCHANGED <<variant, page, stale, dragState, dragData, dom, hidden, placeholderRef,
                   dropTargetRef, scroll, scrollAnimationRef, frames, mousePositionRef, portal,
                   timers, calls, lastMove, downs>>

NextMount ==
    \/ \E id \in RegistryIds : \E n \in NodesOf(id) : MountContainer(id, n)
    \/ \E id \in RegistryIds : \E n \in NodesOf(id) : RenderContainer(id, n)
    \/ \E id \in RegistryIds : \E n \in NodesOf(id) : UnmountContainer(id, n)

SpecMount == InitRegistry /\ [][NextMount]_vars

-----------------------------------------------------------------------------
(* The page on which the nested lists c2 and c3 scroll: the same handlers, *)
(* with the pointer at the items and in and around c2 and c3.              *)

OverflowPoints ==
    { [x |-> 30, y |-> 10], [x |-> 80, y |-> 20], [x |-> 145, y |-> 20],
      [x |-> 170, y |-> 20], [x |-> 150, y |-> 100] }

InitOverflow == InitOn("overflow")

NextOverflow ==
    \/ \E p \in OverflowPoints : StartDrag(p)
    \/ \E p \in OverflowPoints : HandleMouseMove(p)
    \/ Frame
    \/ HandleMouseUp
    \/ \E p \in OverflowPoints : StartDragT(p)
    \/ \E p \in OverflowPoints : HandleMouseMoveT(p)
    \/ \E t \in timers \cup {portal.scrollInterval} : Tick(t)
    \/ HandleMouseUpT

SpecOverflow == InitOverflow /\ [][NextOverflow]_vars

-----------------------------------------------------------------------------
(* Pages on which the items of c1 have other heights: every combination of *)
(* 10, 20 and 40 px for a, b and c, under the placeholder variant, whose    *)
(* resolver reads the live rectangles.                                      *)

SizePages == DOMAIN HeightsOn \ {"board", "overflow"}

SizePoints ==
    {[x |-> 30, y |-> y] : y \in {5, 15, 25, 35, 50, 70, 90}} \cup {[x |-> 80, y |-> 20]}

InitSizes == \E pg \in SizePages : InitOn(pg) /\ variant = "placeholder"

NextSizes ==
    \/ \E p \in SizePoints : StartDrag(p)
    \/ \E p \in SizePoints : HandleMouseMove(p)
    \/ Frame
    \/ HandleMouseUp

SpecSizes == InitSizes /\ [][NextSizes]_vars

-----------------------------------------------------------------------------
(* The effect cleanup as a step of its own.  The listeners are removed by  *)
(* the cleanup of the effect that follows the render after the pointer-up; *)
(* when that cleanup is not flushed with the event, the listeners of the   *)
(* ended session, with the values their closures captured, receive the     *)
(* events that arrive before it.                                           *)

\* Where the pointer-moves of that interval arrive.
StalePoints == { [x |-> 30, y |-> 70], [x |-> 150, y |-> 100] }

\* handleMouseUp and the render that follows; the listeners stay attached.
HandleMouseUpOnly ==
    /\ variant = "placeholder"
    /\ dragState.isDragging
    /\ stale = NoStale
    /\ handleMouseUp(dragData, Cur)
    /\ lastMove' = Unmoved
    /\ stale' = [data |-> dragData, props |-> dragState, n |-> 0]
    /\ UNCHANGED <<variant, page, attached, containers, mousePositionRef, portal, timers, downs>>

\* handleMouseMove of the ended session: updateDropTarget sees the dragData of its closure.
StaleMouseMove(p) ==
    /\ variant = "placeholder"
    /\ stale # NoStale
    /\ stale.n < MaxStale
    /\ handleMouseMove(p, stale.data, Cur)
    /\ stale' = [stale EXCEPT !.n = @ + 1]
    /\ UNCHANGED <<variant, page, attached, containers, dragState, dragData,
                   scrollAnimationRef, frames, portal, timers, calls, lastMove, downs>>

\* handleMouseUp of the ended session: its guard reads the dragData of its closure.
StaleMouseUp ==
    /\ variant = "placeholder"
    /\ stale # NoStale
    /\ stale.n < MaxStale
    /\ handleMouseUp(stale.data, Cur)
    /\ stale' = [stale EXCEPT !.n = @ + 1]
    /\ UNCHANGED <<variant, page, attached, containers, mousePositionRef, portal, timers,
                   lastMove, downs>>

\* DragPortal handleMouseUp and handleDrop (lines 1255-1260, 1034-1072) and the render
\* that follows; DragPortal's effect cleanup has not run, its refs are alive.
handleDropT(data) ==
    /\ calls' = calls \o DropCallsT(data, dropTargetRef.containerId,
                                    dropTargetRef.index, containers)
    /\ dragState' = initialDragState
    /\ dragData' = NoDrag
    /\ portal' = [portal EXCEPT !.scrollInterval = NoTimer, !.original = NoOriginal,
                                !.preview = NoPreview, !.transforms = clearAllTransforms]

HandleMouseUpTOnly ==
    /\ variant = "transform"
    /\ portal.mounted
    /\ stale = NoStale
    /\ handleDropT(dragData)
    /\ lastMove' = Unmoved
    /\ stale' = [data |-> dragData, props |-> dragState, n |-> 0]
    /\ UNCHANGED <<variant, page, attached, containers, dom, hidden, placeholderRef,
                   dropTargetRef, scroll, scrollAnimationRef, frames, mousePositionRef,
                   timers, downs>>

\* DragPortal handleMouseMove of the ended session: the props of its closure, and
\* dragDataRef.current, which handleDrop set to null.
StaleMouseMoveT(p) ==
    /\ variant = "transform"
    /\ stale # NoStale
    /\ stale.n < MaxStale
    /\ portal.startMouse = NoPoint => p = portal.downAt
    /\ handleMouseMoveWith(p, stale.props, dragData)
    /\ stale' = [stale EXCEPT !.n = @ + 1]
    /\ UNCHANGED <<variant, page, attached, containers, dragState, dragData, dom, hidden,
                   placeholderRef, scroll, scrollAnimationRef, frames, mousePositionRef,
                   calls, lastMove, downs>>

StaleMouseUpT ==
    /\ variant = "transform"
    /\ stale # NoStale
    /\ stale.n < MaxStale
    /\ handleDropT(dragData)
    /\ stale' = [stale EXCEPT !.n = @ + 1]
    /\ UNCHANGED <<variant, page, attached, containers, dom, hidden, placeholderRef,
                   dropTargetRef, scroll, scrollAnimationRef, frames, mousePositionRef,
                   timers, lastMove, downs>>

\* The cleanup of the listener effect (lines 634-639), or the unmount of DragPortal
\* with the cleanup of its effect (lines 1265-1271); previewStateRef outlives it.
CleanupListeners ==
    /\ stale # NoStale
    /\ stale' = NoStale
    /\ IF variant = "placeholder"
       THEN LET L == stopAutoScrollLoop([ref |-> scrollAnimationRef, frames |-> frames])
            IN  /\ scrollAnimationRef' = L.ref
                /\ frames' = L.frames
                /\ UNCHANGED <<portal, dropTargetRef>>
       ELSE /\ portal' = [NoPortal EXCEPT !.preview = portal.preview]
            /\ dropTargetRef' = NoTarget
            /\ UNCHANGED <<scrollAnimationRef, frames>>
    /\ UNCHANGED <<variant, page, attached, containers, dragState, dragData, dom, hidden,
                   placeholderRef, scroll, mousePositionRef, timers, calls, lastMove,
                   downs>>

NextDeferred ==
    \/ \E p \in Points : stale = NoStale /\ StartDrag(p)
    \/ \E p \in Points : HandleMouseMove(p)
    \/ Frame
    \/ HandleMouseUpOnly
    \/ \E p \in StalePoints : StaleMouseMove(p)
    \/ StaleMouseUp
    \/ \E p \in Points : stale = NoStale /\ StartDragT(p)
    \/ \E p \in Points : stale = NoStale /\ HandleMouseMoveT(p)
    \/ \E t \in timers \cup {portal.scrollInterval} : Tick(t)
    \/ HandleMouseUpTOnly
    \/ \E p \in StalePoints : StaleMouseMoveT(p)
    \/ StaleMouseUpT
    \/ CleanupListeners

SpecDeferred == Init /\ [][NextDeferred]_vars

-----------------------------------------------------------------------------
(* Vocabulary of the properties                                            *)

PointerDown == \E p \in Points : StartDrag(p) \/ StartDragT(p)
PointerUp == HandleMouseUp \/ HandleMouseUpT
TargetExists == dropTargetRef.containerId # NoId
\* Number of non-dragged items currently in container c.
ItemCount(c, draggedId) == Len(getDraggableChildren(c, draggedId, Cur))
\* Placeholder nodes attached to the document, whether or not a ref still holds them.
Placeholders ==
    {n \in UNION {{dom[c][k] : k \in 1..Len(dom[c])} : c \in ContainerIds} :
        n.kind \in {"ph", "orphan"}}
LiveTimers == (timers \cup {portal.scrollInterval}) \ {NoTimer}
\* A step in which the resolver may have run: a pointer-move or an auto-scroll frame.
Resolved == Frame \/ \E p \in Points : HandleMouseMove(p) \/ HandleMouseMoveT(p)

-----------------------------------------------------------------------------
(* C1: in every gesture at most one caller callback is invoked - no        *)
(* callback, one onReorder call or one onItemMove call, never both.        *)
C1_AtMostOneCallback == Len(calls) <= 1

C1_Witness ==
    /\ ~dragState.isDragging
    /\ Len(calls) = 1

(* C2: a startDrag invoked while a session is active is ignored: it leaves *)
(* the session's itemId, type, sourceContainerId and sourceIndex, the      *)
(* placeholder and the set of hidden elements unchanged.                   *)
C2_StartDragWhileActiveIgnored ==
    [][(PointerDown /\ dragData # NoDrag) =>
          /\ dragData'.id = dragData.id
          /\ dragData'.type = dragData.type
          /\ dragData'.sourceContainerId = dragData.sourceContainerId
          /\ dragData'.sourceIndex = dragData.sourceIndex
          /\ placeholderRef' = placeholderRef
          /\ dom' = dom
          /\ hidden' = hidden]_vars

\* A second session has replaced the first: two elements are hidden at once.
C2_Witness == dragData # NoDrag /\ Cardinality(hidden) = 2

(* C3: after pointer-up, on every exit path, the machine is Idle with all  *)
(* transient state cleared: not dragging, no session data, every element   *)
(* visible, no placeholder attached, no injected transform, no drop        *)
(* target, no auto-scroll frame or timer pending.                          *)
Cleared ==
    /\ ~dragState.isDragging
    /\ dragData = NoDrag
    /\ hidden = {}
    /\ Placeholders = {}
    /\ placeholderRef = NoPh
    /\ portal.transforms = NoTransforms
    /\ ~TargetExists
    /\ ~scrollAnimationRef
    /\ LiveTimers = {}

C3_PointerUpClearsAll == [][PointerUp => Cleared']_vars

\* Idle after a pointer-up, with an element still hidden or a timer still live.
C3_Witness == ~dragState.isDragging /\ downs > 0 /\ (hidden # {} \/ LiveTimers # {})

(* C4: whenever a drop target exists during a session, the initial one     *)
(* included, and in every callback fired, the target index is within       *)
(* [0, N], N the number of non-dragged items in the target container.      *)
C4_TargetIndexInRange ==
    [][/\ (dragState.isDragging' /\ TargetExists') =>
              /\ dropTargetRef'.index >= 0
              /\ dropTargetRef'.index <= Len(getDraggableChildren(
                     dropTargetRef'.containerId, dragState.draggedId', [dom |-> dom']))
       /\ PointerUp =>
              \A k \in (Len(calls) + 1)..Len(calls') :
                  /\ calls'[k].toIndex >= 0
                  /\ calls'[k].toIndex <= ItemCount(calls'[k].toContainerId,
                                                    calls'[k].itemId)]_vars

\* The transform variant's initial target.
C4_Witness == dragState.isDragging /\ TargetExists /\ dropTargetRef.index = -1

(* C5: onReorder is never invoked with fromIndex equal to toIndex.         *)
C5_NoIdentityReorder ==
    \A k \in 1..Len(calls) :
        calls[k].cb = "onReorder" => calls[k].fromIndex # calls[k].toIndex

C5_Witness ==
    /\ Len(calls) = 1
    /\ calls[1].cb = "onReorder"

(* C6: every onItemMove invocation carries fromContainerId different from  *)
(* toContainerId, and fromContainerId is the session's source container.   *)
C6_ItemMoveLeavesSource ==
    [][PointerUp =>
          \A k \in (Len(calls) + 1)..Len(calls') :
              calls'[k].cb = "onItemMove" =>
                  /\ calls'[k].fromContainerId # calls'[k].toContainerId
                  /\ calls'[k].fromContainerId = dragData.sourceContainerId
                  /\ calls'[k].fromContainerId = dragState.sourceContainerId]_vars

C6_Witness ==
    /\ Len(calls) = 1
    /\ calls[1].cb = "onItemMove"
    /\ calls[1].fromContainerId = "c2"
    /\ calls[1].toContainerId = "c1"

(* C7: for a same-container drop, the (fromIndex, toIndex) passed to       *)
(* onReorder, applied to the caller's list as remove-at-fromIndex then     *)
(* insert-at-toIndex, yields the order in which the dragged item sits      *)
(* immediately before the sibling the resolver selected, or last.          *)

\* The caller's list after list.splice(toIndex, 0, list.splice(fromIndex, 1)[0]).
ApplyReorder(list, fromIndex, toIndex) ==
    LET k == IF fromIndex < 0 THEN Max(Len(list) + fromIndex, 0)
             ELSE Min(fromIndex, Len(list))
        rest == SubSeq(list, 1, k) \o SubSeq(list, k + 2, Len(list))
    IN  IF k < Len(list) THEN Splice(rest, toIndex, list[k + 1]) ELSE list

\* The order the resolver last selected for container c: where the placeholder
\* stands among the other items, or the preview order of previewStateRef.
PreviewOrder(c) ==
    IF variant = "placeholder"
    THEN LET nodes == SelectSeq(dom[c], LAMBDA n :
                          n = placeholderRef \/ (n.kind = "item" /\ n.id # dragData.id))
         IN  [k \in 1..Len(nodes) |->
                 IF nodes[k] = placeholderRef THEN dragData.id ELSE nodes[k].id]
    ELSE Splice(getDraggableChildren(c, dragData.id, Cur), portal.preview.index,
                dragData.id)

C7_ReorderYieldsPreviewOrder ==
    [][PointerUp =>
          \A k \in (Len(calls) + 1)..Len(calls') :
              calls'[k].cb = "onReorder" =>
                  ApplyReorder(getDraggableChildren(calls'[k].toContainerId, NoId, Cur),
                               calls'[k].fromIndex, calls'[k].toIndex)
                  = PreviewOrder(calls'[k].toContainerId)]_vars

\* The transform variant's press-and-release.
C7_Witness ==
    /\ Len(calls) = 1
    /\ calls[1].cb = "onReorder"
    /\ calls[1].toIndex = -1

(* C8: the resolved insertion index is the index of the first non-dragged  *)
(* item, in on-axis order, whose on-axis midpoint the dragged item's       *)
(* trailing edge (pointer or ghost centre plus half the dragged item's     *)
(* size on that axis) has not passed, or the item count.                   *)

\* rects: the rectangle of each of the items; trailingEdge2: twice the trailing edge.
FirstUnpassed(trailingEdge2, isHorizontal, items, rects) ==
    LET unpassed == {k \in 1..Len(items) :
                        trailingEdge2 < Midpoint2(rects[items[k]], isHorizontal)}
    IN  IF unpassed = {} THEN Len(items)
        ELSE (CHOOSE k \in unpassed : \A j \in unpassed : k <= j) - 1

C8_IndexByTrailingEdge ==
    [][\A p \in Points :
          /\ (HandleMouseMove(p) /\ TargetExists') =>
                LET c == dropTargetRef'.containerId
                    isHorizontal == MapGet(containers, c).direction = "horizontal"
                IN  dropTargetRef'.index =
                        FirstUnpassed(
                            IF isHorizontal THEN 2 * p.x + dragData.rect.width
                            ELSE 2 * p.y + dragData.rect.height,
                            isHorizontal, getDraggableChildren(c, dragData.id, Cur),
                            [i \in ItemIds |-> ItemRect(i, Cur)])
          /\ (HandleMouseMoveT(p) /\ TargetExists') =>
                LET c == dropTargetRef'.containerId
                    isHorizontal == MapGet(containers, c).direction = "horizontal"
                    r == portal.initialRect
                    start == portal'.startMouse
                IN  dropTargetRef'.index =
                        FirstUnpassed(
                            IF isHorizontal
                            THEN 2 * (r.left + p.x - start.x) + r.width + r.width
                            ELSE 2 * (r.top + p.y - start.y) + r.height + r.height,
                            isHorizontal, getDraggableChildren(c, dragData.id, Cur),
                            [i \in ItemIds |-> OriginalRect(portal.original, i)])]_vars

\* The placeholder variant: a, 40 high, dragged to y = 45, its trailing edge at 65
\* past b's midpoint at 50, and the resolved index still 0.
C8_Witness ==
    /\ variant = "placeholder"
    /\ dragData.id = "a"
    /\ lastMove = "c1"
    /\ scroll = [c \in ContainerIds |-> 0]
    /\ mousePositionRef = [x |-> 30, y |-> 45]
    /\ dropTargetRef = [containerId |-> "c1", index |-> 0]
    /\ hidden = {"a"}

(* C9: if the last pointer-move before release resolved no eligible        *)
(* container, pointer-up fires no callback.                                *)
C9_NoTargetAtLastMoveNoCallback ==
    [][(PointerUp /\ lastMove = NoId) => calls' = calls]_vars

(* C9, as the code has it: if the last resolution before release - by a    *)
(* pointer-move or by the re-resolution that follows an auto-scroll step - *)
(* found no eligible container, so that the drop target is null at         *)
(* release, pointer-up fires no callback; under the transform variant,     *)
(* whose timers do not re-resolve, the last pointer-move decides.          *)
C9_NullTargetNoCallback ==
    [][(PointerUp /\ (~TargetExists \/ (variant = "transform" /\ lastMove = NoId)))
          => calls' = calls]_vars

\* Released at a point that lies in no list, whatever the scroll offsets.
C9_Witness ==
    /\ variant = "placeholder"
    /\ ~dragState.isDragging
    /\ downs > 0
    /\ mousePositionRef = [x |-> 150, y |-> 100]
    /\ calls = <<>>

(* C10: when the release target is a container other than the source, one  *)
(* that is registered and provides onItemMove, onItemMove is invoked with  *)
(* fromIndex = sourceIndex and toIndex = the resolved index, whether or    *)
(* not the two indices are equal.                                          *)
C10_ItemMoveUnconditional ==
    [][(/\ PointerUp
        /\ TargetExists
        /\ dropTargetRef.containerId # dragData.sourceContainerId
        /\ MapGet(containers, dropTargetRef.containerId) # NoConfig
        /\ MapGet(containers, dropTargetRef.containerId).onItemMove)
          => calls' = calls \o <<Call("onItemMove", dragData.id,
                                      dragData.sourceContainerId,
                                      dropTargetRef.containerId,
                                      dragData.sourceIndex, dropTargetRef.index)>>]_vars

C10_Witness ==
    /\ Len(calls) = 1
    /\ calls[1].cb = "onItemMove"
    /\ calls[1].fromIndex = calls[1].toIndex

(* C11: resolving against a container with none but the dragged item       *)
(* yields index 0; item x, source index 0 in c2, released over the empty   *)
(* list c3 fires exactly onItemMove(x, c2, c3, 0, 0).                      *)
C11_EmptyContainerYieldsZero ==
    [][/\ (/\ Resolved
            /\ TargetExists'
            /\ getDraggableChildren(dropTargetRef'.containerId, dragData.id,
                                    [dom |-> dom']) = <<>>)
              => dropTargetRef'.index = 0
       /\ (PointerUp /\ dragData.id = "x" /\ dropTargetRef.containerId = "c3")
              => calls' = calls \o <<Call("onItemMove", "x", "c2", "c3", 0, 0)>>]_vars

C11_Witness ==
    /\ ~dragState.isDragging
    /\ calls = <<Call("onItemMove", "x", "c2", "c3", 0, 0)>>

(* C12: a container whose accepted types do not include the dragged type   *)
(* is never the drop target; when no registered container accepts the      *)
(* dragged type the session has no drop target at any time, and pointer-up *)
(* fires no callback.                                                      *)
C12_UnacceptedNeverTarget ==
    [][/\ (dragState.isDragging' /\ TargetExists')
              => dragData'.type \in AcceptsTypes[dropTargetRef'.containerId]
       /\ (/\ dragState.isDragging'
           /\ \A k \in 1..Len(containers') :
                  dragData'.type \notin containers'[k].acceptsTypes)
              => ~TargetExists'
       /\ (/\ PointerUp
           /\ \A k \in 1..Len(containers) :
                  dragData.type \notin containers[k].acceptsTypes)
              => calls' = calls]_vars

\* The note released where it was pressed: a callback fired on the list that
\* does not accept it.
C12_Witness ==
    /\ Len(calls) = 1
    /\ calls[1].itemId = "c"
    /\ TypeOf["c"] \notin AcceptsTypes[calls[1].toContainerId]

(* C13: nothing but a pointer-down or the release changes the session's    *)
(* itemId, type, sourceContainerId or sourceIndex - no pointer-move, frame,*)
(* timer, registration or departure to another container and return - and  *)
(* every callback reports as fromIndex the sourceIndex of the session, with *)
(* the session's item and source container.                                *)
C13_SessionDataImmutable ==
    [][/\ (~PointerDown /\ ~PointerUp) => (dragData' = dragData /\ dragState' = dragState)
       /\ PointerUp =>
              \A k \in (Len(calls) + 1)..Len(calls') :
                  /\ calls'[k].fromIndex = dragData.sourceIndex
                  /\ calls'[k].itemId = dragData.id
                  /\ calls'[k].fromContainerId = dragData.sourceContainerId]_vars

\* b, second in c1, taken over to the empty list c3.
C13_Witness ==
    /\ ~dragState.isDragging
    /\ calls = <<Call("onItemMove", "b", "c1", "c3", 1, 0)>>

(* C14: a container unregistered during a drag is never returned by the    *)
(* resolver - by a pointer-move or by the re-resolution after an           *)
(* auto-scroll step - and when the container of the last-resolved target   *)
(* is not registered at pointer-up, no callback fires and the teardown     *)
(* completes: session ended, dragged element shown again, the session's    *)
(* placeholder removed, previews cleared, no target, no frame pending.     *)
C14_UnregisteredNeverTarget ==
    [][/\ (/\ \/ \E p \in Points : HandleMouseMove(p) \/ HandleMouseMoveT(p)
              \/ Frame /\ scroll' # scroll
           /\ TargetExists')
              => MapHas(containers, dropTargetRef'.containerId)
       /\ (PointerUp /\ TargetExists /\ ~MapHas(containers, dropTargetRef.containerId))
              => /\ calls' = calls
                 /\ ~dragState'.isDragging
                 /\ dragData' = NoDrag
                 /\ dragData.id \notin hidden'
                 /\ placeholderRef' = NoPh
                 /\ \A c \in ContainerIds : PosIn(dom'[c], Ph(dragData.id)) = 0
                 /\ portal' = NoPortal
                 /\ ~TargetExists'
                 /\ ~scrollAnimationRef']_vars

\* A pointer-move resolved c1, and c1 has been unregistered since.
C14_Witness ==
    /\ dragState.isDragging
    /\ lastMove = "c1"
    /\ dropTargetRef.containerId = "c1"
    /\ ~MapHas(containers, "c1")

(* C15: register is an upsert keyed by id.  It is a no-op exactly when an  *)
(* entry for the id exists whose node differs from the incoming node and   *)
(* is still attached; otherwise the entry becomes the incoming config and  *)
(* the other entries stay.  The registry never holds two configs for one   *)
(* id.                                                                     *)
C15_RegisterUpsert ==
    \A id \in RegistryIds : \A n \in NodesOf(id) \cap attached :
        LET existing == MapGet(containers, id)
            rejected == /\ existing # NoConfig
                        /\ existing.element # n
                        /\ existing.element \in attached
            after == registerWith(containers, id, n)
        IN  /\ rejected => after = containers
            /\ ~rejected =>
                  /\ MapGet(after, id) = Config(id, AcceptsTypes[id], DirectionOf[id], n,
                                                HasOnReorder[id], HasOnItemMove[id])
                  /\ MapDelete(after, id) = MapDelete(containers, id)
            /\ Cardinality({k \in 1..Len(after) : after[k].id = id}) = 1

(* C16: unregister(id, node) removes the entry for id when no node is      *)
(* given or the given node is the registered one, and leaves the registry  *)
(* unchanged when it carries a node other than the registered one.         *)
C16_UnregisterGuarded ==
    \A id \in RegistryIds : \A n \in NodesOf(id) \cup {NoId} :
        LET registered == MapGet(containers, id)
            after == unregisterWith(containers, id, n)
        IN  IF n = NoId \/ registered = NoConfig \/ registered.element = n
            THEN after = MapDelete(containers, id)
            ELSE after = containers

(* C17: of the registered containers that accept the dragged type and      *)
(* contain the pointer, the resolver returns the innermost; an enclosing   *)
(* container only when no eligible container nested in it contains the     *)
(* pointer; none when there is no such container.                          *)

\* The innermost eligible container at p, NoId when there is none.
InnermostEligible(p, type) ==
    LET eligible == SelectSeq(Nesting, LAMBDA c :
                        /\ Inside(p, ContainerRect(c, scroll))
                        /\ MapHas(containers, c)
                        /\ type \in MapGet(containers, c).acceptsTypes)
    IN  IF eligible = <<>> THEN NoId ELSE Head(eligible)

C17_InnermostWins ==
    [][\A p \in Points :
          (HandleMouseMove(p) \/ HandleMouseMoveT(p))
              => dropTargetRef'.containerId = InnermostEligible(p, dragData.type)]_vars

(* C18: the resolver called a second time with the same pointer            *)
(* coordinates, the registry and the geometry being what the first call    *)
(* left, yields the same drop target and writes nothing: the placeholder   *)
(* stays where it is, the transforms and the preview state stay as they    *)
(* are.                                                                    *)

\* The DOM as the step leaves it.
Next_Cur ==
    [dom |-> dom', hidden |-> hidden', ph |-> placeholderRef', target |-> dropTargetRef',
     scroll |-> scroll']

\* What a second run of the body of DragPortal's handleMouseMove at p would leave,
\* started in the state the step leaves.
SecondMoveT(p) ==
    LET newX == portal'.initialRect.left + (p.x - portal'.startMouse.x)
        newY == portal'.initialRect.top + (p.y - portal'.startMouse.y)
        center2 == [x |-> 2 * newX + portal'.initialRect.width,
                    y |-> 2 * newY + portal'.initialRect.height]
        acc == HitTest(1, p, dragState'.draggedType, containers', scroll',
                       [area |-> -1, target |-> NoId, interval |-> NoTimer, leaked |-> {}])
        previewIndex ==
            IF acc.target # NoId
            THEN calculatePreviewIndex(acc.target, center2, dragState'.draggedId,
                                       containers', portal'.original, dragData')
            ELSE 0
        applied == applyTransforms(acc.target, previewIndex, dragState'.draggedId,
                                   dragState'.sourceContainerId, containers',
                                   portal'.original, dragData', portal'.preview,
                                   portal'.transforms)
    IN  [target |-> [containerId |-> acc.target, index |-> previewIndex],
         preview |-> applied.preview, transforms |-> applied.transforms]

C18_ResolverIdempotent ==
    [][\A p \in Points :
          /\ (HandleMouseMove(p) \/ (Frame /\ scroll' # scroll /\ p = mousePositionRef))
                => updateDropTarget(p, dragData', containers', Next_Cur) = Next_Cur
          /\ HandleMouseMoveT(p)
                => SecondMoveT(p) = [target |-> dropTargetRef', preview |-> portal'.preview,
                                     transforms |-> portal'.transforms]]_vars

\* The placeholder of a has been moved behind b and stands there.
C18_Witness ==
    /\ variant = "placeholder"
    /\ dragData.id = "a"
    /\ lastMove = "c1"
    /\ dropTargetRef = [containerId |-> "c1", index |-> 1]
    /\ dom["c1"] = <<Item("a"), Item("b"), Ph("a"), Item("c")>>

(* C19: at most one placeholder node is attached to the document in any    *)
(* reachable state, and none while no session is active: no sequence of    *)
(* pointer-downs, moves, frames and releases leaves a placeholder behind.  *)
C19_AtMostOnePlaceholder ==
    /\ Cardinality(Placeholders) <= 1
    /\ ~dragState.isDragging => Placeholders = {}

\* Idle, and a placeholder no ref points to is still in a list.
C19_Witness ==
    /\ ~dragState.isDragging
    /\ placeholderRef = NoPh
    /\ \E c \in ContainerIds : \E k \in 1..Len(dom[c]) : dom[c][k].kind = "orphan"

(* C20: while the pointer is held over a vertically scrollable container,  *)
(* within the threshold of its top edge, every auto-scroll frame (every    *)
(* firing of the scroll-up timer) decreases the container's scroll offset  *)
(* as long as it is above 0, and once it is 0 no frame changes it; the     *)
(* offset never leaves the scrollable range.                               *)

\* The pointer is over el and within the threshold of its top edge.
InTopZone(el, p) ==
    /\ ScrollAxis[el] = "y"
    /\ \E k \in 1..Len(ElementsFromPoint(p, Cur)) : ElementsFromPoint(p, Cur)[k] = el
    /\ p.y < ContainerRect(el, scroll).top + SCROLL_THRESHOLD

C20_ScrollsUpUntilExhausted ==
    [][\A el \in ContainerIds :
          /\ (Frame /\ InTopZone(el, mousePositionRef))
                => IF scroll[el] > 0 THEN scroll'[el] < scroll[el]
                   ELSE scroll'[el] = scroll[el]
          /\ (/\ portal.scrollInterval # NoTimer
              /\ portal.scrollInterval.el = el
              /\ portal.scrollInterval.delta < 0
              /\ Tick(portal.scrollInterval))
                => IF scroll[el] > 0 THEN scroll'[el] < scroll[el]
                   ELSE scroll'[el] = scroll[el]
          /\ scroll'[el] >= 0 /\ scroll'[el] <= ScrollRoom[el]]_vars

\* The pointer rests at y = 45 in c1, 100 high: within 60 of its top edge and within
\* 60 of its bottom edge; a frame has scrolled the list down.
C20_Witness ==
    /\ variant = "placeholder"
    /\ dragState.isDragging
    /\ lastMove = "c1"
    /\ mousePositionRef = [x |-> 30, y |-> 45]
    /\ scroll["c1"] = SCROLL_SPEED

\* C21: the auto-scroll loop runs exactly while a session is active.  Under the
\* placeholder variant one animation frame is pending whenever a session is active
\* and none otherwise, never more than one is pending, and a frame that runs finds
\* a session active: the frame pending at the pointer-up was cancelled, so none
\* scrolls or resolves after it.
C21_LoopRunsExactlyWhileActive ==
    [][/\ variant' = "placeholder" =>
             /\ frames' = (IF dragState'.isDragging THEN 1 ELSE 0)
             /\ scrollAnimationRef' = dragState'.isDragging
       /\ frames' <= 1
       /\ Frame => dragState.isDragging]_vars

\* A session in which a frame scrolled c1 has ended and no frame is pending.
C21_Witness ==
    /\ variant = "placeholder"
    /\ downs > 0
    /\ ~dragState.isDragging
    /\ scroll["c1"] > 0
    /\ frames = 0

\* The element an auto-scroll step at p may scroll: the first of the elements under
\* the pointer, innermost first, that is within the threshold of an edge along its
\* scroll axis and has room left in that direction; NoId when there is none.
NearEdgeWithRoom(el, p, sc) ==
    LET rect == ContainerRect(el, sc)
        pos == IF ScrollAxis[el] = "y" THEN p.y ELSE p.x
        near == IF ScrollAxis[el] = "y" THEN rect.top ELSE rect.left
        far == IF ScrollAxis[el] = "y" THEN Bottom(rect) ELSE Right(rect)
    IN  \/ pos < near + SCROLL_THRESHOLD /\ sc[el] > 0
        \/ pos > far - SCROLL_THRESHOLD /\ sc[el] < ScrollRoom[el]

ScrollCandidate(p, D) ==
    LET els == SelectSeq(ElementsFromPoint(p, D),
                         LAMBDA el : NearEdgeWithRoom(el, p, D.scroll))
    IN  IF els = <<>> THEN NoId ELSE Head(els)

\* C22: one auto-scroll frame changes the scroll offset of at most one container,
\* and that container is the innermost scrollable element under the pointer that is
\* near an edge and has room.  For the animation frames of the placeholder variant
\* this is said of the offsets a frame changes; for the interval timers of the
\* transform variant, which all fire in each 16 ms period, it is said of the timers
\* a pointer-move starts and of the timers alive after it.
C22_OneInnermostScrollsPerFrame ==
    [][/\ Frame =>
             \A c \in ContainerIds :
                 scroll'[c] # scroll[c] => c = ScrollCandidate(mousePositionRef, Cur)
       /\ \A p \in Points :
             HandleMouseMoveT(p) =>
                 /\ \A t \in LiveTimers' \ timers : t.el = ScrollCandidate(p, Cur)
                 /\ Cardinality({t.el : t \in LiveTimers'}) <= 1]_vars

\* What a resolution that found the pointer outside every eligible container leaves.
NothingShown ==
    /\ ~TargetExists
    /\ Placeholders = {}
    /\ portal.transforms = NoTransforms

\* C23: while a session is active, a resolution - a pointer-move, or the one that
\* follows an auto-scroll step - that finds the pointer outside every eligible
\* container leaves no drop target, no placeholder node in the document and no
\* transform on any item, and leaves the session active with its data unchanged.
C23_OutsideClearsButKeepsSession ==
    [][/\ \A p \in Points :
             (/\ HandleMouseMove(p) \/ HandleMouseMoveT(p)
              /\ InnermostEligible(p, dragData.type) = NoId)
                 => (NothingShown' /\ dragState' = dragState /\ dragData' = dragData)
       /\ (/\ Frame
           /\ scroll' # scroll
           /\ InnermostEligible(mousePositionRef, dragData.type)' = NoId)
              => (NothingShown' /\ dragState' = dragState /\ dragData' = dragData)]_vars

\* C24: the exposed dragState is the initial value (false, null, null, null) or
\* (true, id, type, containerId) of the Draggable the pointer went down on.  It is
\* the initial value before any pointer-down and after every pointer-up, a
\* pointer-down sets it to the props of that Draggable, no other step changes it,
\* and it agrees with the session data: that is non-null exactly when isDragging,
\* and then names the same item, type and source container.
C24_DragStateIsIdleOrTheDown ==
    /\ dragState = initialDragState
    /\ [][/\ \A p \in Points :
               /\ StartDrag(p) =>
                      LET id == ItemAt(p, Cur)
                      IN  dragState' = [isDragging |-> TRUE, draggedId |-> id,
                                        draggedType |-> TypeOf[id],
                                        sourceContainerId |-> ParentOf[id]]
               /\ StartDragT(p) =>
                      LET id == ItemAtT(p, scroll, portal.transforms)
                      IN  dragState' = [isDragging |-> TRUE, draggedId |-> id,
                                        draggedType |-> TypeOf[id],
                                        sourceContainerId |-> ParentOf[id]]
          /\ PointerUp => dragState' = initialDragState
          /\ (~PointerDown /\ ~PointerUp) => dragState' = dragState
          /\ dragState'.isDragging <=> dragData' # NoDrag
          /\ ~dragState'.isDragging => dragState' = initialDragState
          /\ dragState'.isDragging =>
                 /\ dragState'.draggedId = dragData'.id
                 /\ dragState'.draggedType = dragData'.type
                 /\ dragState'.sourceContainerId = dragData'.sourceContainerId]_vars

\* Item b of c1 is being dragged and the pointer has moved over c2.
C24_Witness ==
    /\ dragState = [isDragging |-> TRUE, draggedId |-> "b", draggedType |-> "card",
                    sourceContainerId |-> "c1"]
    /\ lastMove = "c2"

\* The Draggables rendered on the page: the items of the lists and, further down the
\* board where no pointer event of the model arrives, a Draggable of the board whose
\* id is also "a".
Draggables ==
    {[id |-> i, containerId |-> ParentOf[i]] : i \in ItemIds}
        \cup {[id |-> "a", containerId |-> "board"]}

\* isBeingDragged of Draggable.tsx (line 19) and of the polymorphic Draggable
\* (part_000, lines 109-111), for the Draggable d under the exposed state ds.
isBeingDragged(d, ds) == ds.isDragging /\ ds.draggedId = d.id

isBeingDraggedAs(d, ds) ==
    ds.isDragging /\ ds.draggedId = d.id /\ ds.sourceContainerId = d.containerId

\* C25: during a session exactly one Draggable is marked as being dragged, the one
\* whose id and containerId are those of the session; a Draggable with the same id
\* in another container is not marked; when no session is active none is marked.
\* Said of both Draggable components.
C25_ExactlyTheDraggedIsMarked ==
    LET session == [id |-> dragData.id, containerId |-> dragData.sourceContainerId]
        expected == IF dragState.isDragging THEN {session} ELSE {}
    IN  /\ {d \in Draggables : isBeingDragged(d, dragState)} = expected
        /\ {d \in Draggables : isBeingDraggedAs(d, dragState)} = expected

\* The pointer at p is on the handle of item i, whose box begins at left.
OnHandleOf(i, p, left) == left <= p.x /\ p.x < left + HandleWidth

\* C26: for a Draggable with a handleClassName, a pointer-down off the handle never
\* starts a session, and a pointer-down on the handle starts one: every session of
\* item x begins with the pointer on its handle, and whenever no session is active
\* the pointer-down on the handle of x is taken.
C26_OnlyTheHandleStartsADrag ==
    /\ [][\A p \in Points :
             /\ StartDrag(p) =>
                    LET id == ItemAt(p, Cur)
                    IN  HandleClassName[id] # NoId
                            => OnHandleOf(id, p, ItemRect(id, Cur).left)
             /\ StartDragT(p) =>
                    LET id == ItemAtT(p, scroll, portal.transforms)
                    IN  HandleClassName[id] # NoId
                            => OnHandleOf(id, p, RectT(id, scroll, portal.transforms).left)]_vars
    /\ [](\A p \in Points :
             (/\ ~dragState.isDragging
              /\ downs < MaxDowns
              /\ OnHandleOf("x", p, ItemRect("x", Cur).left)
              /\ Covers(ItemRect("x", Cur), p)
              /\ ElementsFromPoint(p, Cur) # <<>>
              /\ Head(ElementsFromPoint(p, Cur)) = "c2")
                 => ENABLED (StartDrag(p) \/ StartDragT(p)))

\* Item x is being dragged: the pointer went down on its handle.
C26_Witness ==
    /\ dragState.isDragging
    /\ dragData.id = "x"
    /\ downs = 1

\* C27: a pointer-down followed at once by the pointer-up, with no pointer-move and
\* no re-resolution that changed the drop target in between, fires no callback and
\* leaves the model as it was.  Under the placeholder variant the drop target is
\* then still the source slot; under the transform variant a release whose recorded
\* index is -1 must not reach onReorder.
C27_PressAndReleaseIsSilent ==
    [][(/\ PointerUp
        /\ lastMove = Unmoved
        /\ variant = "placeholder" =>
               dropTargetRef = [containerId |-> dragData.sourceContainerId,
                                index |-> dragData.sourceIndex])
          => calls' = calls]_vars

\* A pointer-move or pointer-up delivered to the listeners of an ended session.
StaleMove == \E p \in StalePoints : StaleMouseMove(p) \/ StaleMouseMoveT(p)
StaleUp == StaleMouseUp \/ StaleMouseUpT
\* The placeholder nodes in the document that a ref of the provider holds.
HeldPlaceholders ==
    {n \in UNION {{dom[c][k] : k \in 1..Len(dom[c])} : c \in ContainerIds} : n.kind = "ph"}

\* C28: a pointer-move delivered after the pointer-up, to listeners the effect
\* cleanup has not yet removed, recreates nothing: after it no placeholder is
\* attached, placeholderRef is null and the drop target is null.
C28_StaleMoveRecreatesNothing ==
    [][StaleMove => (/\ HeldPlaceholders' = {}
                     /\ placeholderRef' = NoPh
                     /\ ~TargetExists')]_vars

\* C29: a pointer-up delivered a second time for one session, before the listeners
\* are removed, invokes no callback and changes nothing.
C29_SecondPointerUpChangesNothing ==
    [][StaleUp => (/\ calls' = calls
                   /\ UNCHANGED <<containers, dragState, dragData, dom, hidden,
                                  placeholderRef, dropTargetRef, scroll,
                                  scrollAnimationRef, frames, timers>>)]_vars

\* C30: of two Containers with the same id, an original and a duplicate mounted
\* while the original is, the registry holds the config of the original for as long
\* as the original is mounted and attached, whatever the order of the mounts, renders
\* and unmounts; the unmount of the duplicate does not remove it.
C30_OriginalKeepsRegistration ==
    \A id \in RegistryIds :
        id \in attached =>
            /\ MapHas(containers, id)
            /\ MapGet(containers, id).element = id

(* C31: the sourceIndex captured at pointer-down is the dragged item's own *)
(* position in its source container's current item order, within [0, M-1], *)
(* never -1 and never a default of 0 for an item that is not first; no     *)
(* callback carries a negative or fabricated fromIndex.                    *)

\* The position of item id among the items of its container, as the page shows them.
OwnPosition(id) ==
    LET items == SelectSeq(dom[ParentOf[id]], LAMBDA n : n.kind = "item")
    IN  FindIndex([k \in 1..Len(items) |-> items[k].id], id)

C31_SourceIndexIsOwnPosition ==
    [][/\ PointerDown =>
              /\ dragData'.sourceIndex = OwnPosition(dragData'.id)
              /\ dragData'.sourceIndex >= 0
       /\ PointerUp =>
              \A k \in (Len(calls) + 1)..Len(calls') :
                  calls'[k].fromIndex = OwnPosition(calls'[k].itemId)]_vars

\* A session on the third item of c1 that recorded position 0.
C31_Witness ==
    /\ dragState.isDragging
    /\ dragData.id = "c"
    /\ dragData.sourceIndex = 0

(* C32: after every pointer-down, pointer-move and auto-scroll frame of a  *)
(* session the placeholder agrees with the drop target: with target (c, i) *)
(* the placeholder is a child of c immediately before the non-dragged item *)
(* at index i, or the last child when i is the item count; with no target  *)
(* the placeholder is detached.                                            *)

\* The placeholder of placeholderRef stands where the drop target says.
PlaceholderAgrees ==
    IF TargetExists
    THEN LET c == dropTargetRef.containerId
             i == dropTargetRef.index
             others == getDraggableChildren(c, dragData.id, Cur)
             k == PosIn(dom[c], placeholderRef)
         IN  /\ placeholderRef # NoPh
             /\ k > 0
             /\ IF i >= 0 /\ i < Len(others)
                THEN /\ k < Len(dom[c])
                     /\ dom[c][k + 1] = Item(others[i + 1])
                ELSE i = Len(others) /\ k = Len(dom[c])
    ELSE HeldPlaceholders = {}

C32_PlaceholderAgreesWithTarget ==
    [][(/\ variant = "placeholder"
        /\ dragState.isDragging'
        /\ \/ Frame
           \/ \E p \in Points : StartDrag(p) \/ HandleMouseMove(p)) => PlaceholderAgrees']_vars

\* A session with a drop target in the source list and the placeholder in no list.
C32_Witness ==
    /\ variant = "placeholder"
    /\ dragState.isDragging
    /\ TargetExists
    /\ placeholderRef # NoPh
    /\ HeldPlaceholders = {}

(* C33: in the transform variant every scroll interval a pointer-move      *)
(* creates is cleared by the next pointer-move or by the pointer-up: at    *)
(* most one interval is live at any time, also when the pointer is inside  *)
(* nested eligible containers, and none is live after the session ends.    *)
C33_AtMostOneScrollInterval ==
    variant = "transform" =>
        /\ Cardinality(LiveTimers) <= 1
        /\ ~dragState.isDragging => LiveTimers = {}

\* Two intervals live at once: the one the ref holds and one it has lost.
C33_Witness ==
    /\ variant = "transform"
    /\ dragState.isDragging
    /\ portal.scrollInterval # NoTimer
    /\ timers \ {portal.scrollInterval} # {}

(* C34: whenever an auto-scroll frame changes a container's scroll offset, *)
(* the drop target and the placeholder are re-resolved within that frame   *)
(* with the most recent pointer coordinates: what the frame leaves is what *)
(* the resolver answers at the pointer's position on the scrolled page.  A *)
(* frame that scrolls nothing re-resolves nothing.  For the interval       *)
(* timers of the transform variant the pointer is whichever point of the   *)
(* page the last pointer event was at.                                     *)
C34_ScrollingFrameReResolves ==
    [][/\ (Frame /\ scroll' # scroll) =>
              updateDropTarget(mousePositionRef', dragData', containers', Next_Cur) = Next_Cur
       /\ (Frame /\ scroll' = scroll) =>
              /\ dropTargetRef' = dropTargetRef
              /\ dom' = dom
              /\ placeholderRef' = placeholderRef
       /\ \A t \in LiveTimers :
              (Tick(t) /\ scroll' # scroll) =>
                  \E p \in Points :
                      SecondMoveT(p) = [target |-> dropTargetRef',
                                        preview |-> portal'.preview,
                                        transforms |-> portal'.transforms]]_vars

\* A timer has scrolled c1 under a session whose target is still c1, which has
\* left the registry.
C34_Witness ==
    /\ variant = "transform"
    /\ dragState.isDragging
    /\ scroll["c1"] > 0
    /\ dropTargetRef.containerId = "c1"
    /\ ~MapHas(containers, "c1")

C36_OnlyRegistrationChangesRegistry ==
    [][/\ (PointerDown \/ Resolved \/ PointerUp \/ \E t \in LiveTimers : Tick(t))
              => containers' = containers
       /\ containers' # containers =>
              \E c \in ContainerIds :
                  /\ Register(c) \/ Unregister(c)
                  /\ \A d \in ContainerIds \ {c} :
                         MapGet(containers', d) = MapGet(containers, d)]_vars

\* A whole gesture has run, with a callback, and c1 has unregistered since: the
\* other three containers are registered as they were mounted.
C36_Witness ==
    /\ ~dragState.isDragging
    /\ Len(calls) = 1
    /\ ~MapHas(containers, "c1")
    /\ \A c \in ContainerIds \ {"c1"} :
           MapGet(containers, c) = Config(c, AcceptsTypes[c], DirectionOf[c], c,
                                          HasOnReorder[c], HasOnItemMove[c])

(* C37: in the transform variant's preview inside the source container,    *)
(* the slots the items of the container are shown in are a permutation of  *)
(* the slots captured at the pointer-down (no two items share a slot), and *)
(* the order in which the items are shown is the original order with the   *)
(* dragged item removed and inserted at the preview index.                 *)

\* Where item i is shown along the axis of container c under styles tr.
ShownAt(i, c, sc, tr) ==
    IF Horizontal(c) THEN RectT(i, sc, tr).left ELSE RectT(i, sc, tr).top

C37_PreviewIsAPermutation ==
    [][\A p \in Points :
          (/\ HandleMouseMoveT(p)
           /\ dropTargetRef'.containerId = dragState.sourceContainerId
           /\ dragState.sourceContainerId \in portal.original.ids) =>
              LET c == dragState.sourceContainerId
                  items == OriginalItems(c)
                  ids == {items[k] : k \in 1..Len(items)}
                  order == Splice(SelectSeq(items, LAMBDA i : i # dragState.draggedId),
                                  dropTargetRef'.index, dragState.draggedId)
                  sc == portal.original.scroll
              IN  /\ {ShownAt(i, c, sc, portal'.transforms) : i \in ids}
                         = {ShownAt(i, c, sc, portal.original.shift) : i \in ids}
                  /\ \A j, k \in 1..Len(order) :
                         j < k => ShownAt(order[j], c, sc, portal'.transforms)
                                      < ShownAt(order[k], c, sc, portal'.transforms)]_vars

\* Item a is previewed behind b in c1: b is shown in the first slot, a in the second.
C37_Witness ==
    /\ variant = "transform"
    /\ dragState.draggedId = "a"
    /\ portal.preview = [containerId |-> "c1", index |-> 1]
    /\ portal.transforms["b"].dy = -40
    /\ portal.transforms["a"].dy = 40

(* C38: in the placeholder variant a stationary pointer causes no          *)
(* oscillation: once a pointer-move has put the placeholder at the index   *)
(* it resolved and the siblings have been laid out again, resolving at the *)
(* same coordinates answers the same index and changes nothing, whatever   *)
(* the sizes of the items.                                                 *)
C38_StationaryPointerSettles ==
    [][\A p \in SizePoints :
          (HandleMouseMove(p) /\ TargetExists') =>
              LET container == MapGet(containers, dropTargetRef'.containerId)
                  draggables == getDraggableChildren(container.element, dragData.id,
                                                     Next_Cur)
              IN  /\ calculateDropIndex(p, container, draggables, Next_Cur)
                         = dropTargetRef'.index
                  /\ updateDropTarget(p, dragData', containers', Next_Cur) = Next_Cur]_vars

\* Item a, 40 px high, has been moved behind b, 10 px high: the placeholder stands
\* between b and c, and b has moved up by the height of the placeholder.
C38_Witness ==
    /\ page = "h_40_10_40"
    /\ dragData.id = "a"
    /\ lastMove = "c1"
    /\ mousePositionRef = [x |-> 30, y |-> 50]
    /\ dropTargetRef = [containerId |-> "c1", index |-> 1]
    /\ dom["c1"] = <<Item("a"), Item("b"), Ph("a"), Item("c")>>

(* C39: at a release over the source container, when its config has an    *)
(* onReorder callback, onReorder fires if and only if removing the dragged *)
(* item and inserting it at the resolved index gives an order other than   *)
(* the original one: no change is dropped and no identity is reported.     *)

\* The release changes the order of the source container.
ReleaseReorders ==
    LET original == getDraggableChildren(dragData.sourceContainerId, NoId, Cur)
        rest == SelectSeq(original, LAMBDA i : i # dragData.id)
    IN  Splice(rest, dropTargetRef.index, dragData.id) # original

C39_ReorderIffOrderChanges ==
    [][(/\ PointerUp
        /\ TargetExists
        /\ dropTargetRef.containerId = dragData.sourceContainerId
        /\ MapGet(containers, dragData.sourceContainerId) # NoConfig
        /\ MapGet(containers, dragData.sourceContainerId).onReorder) =>
           ((\E k \in (Len(calls) + 1)..Len(calls') : calls'[k].cb = "onReorder")
                <=> ReleaseReorders)]_vars

\* Item b was released on its own slot and a reorder from 0 to 1 was reported.
C39_Witness ==
    /\ ~dragState.isDragging
    /\ Len(calls) = 1
    /\ calls[1] = Call("onReorder", "b", "c1", "c1", 0, 1)
    /\ dom["c1"] = <<Item("a"), Item("b"), Item("c")>>

====
